---- MODULE Spec2Model ----
(***************************************************************************)
(* A model of the request pipeline of bxn (@buildxn/http):                 *)
(*   - the hook chain    (route-builder/hooks.ts, compile-chain.ts), run   *)
(*     by one request and, composed once, by several requests at a time,   *)
(*   - the validation gate (middleware/validation.ts, handle.ts),          *)
(*   - the dispatcher    (create-server.ts, write-response.ts),            *)
(*   - the event stream  (http-result.ts: sse).                            *)
(* Each part has its own specification over its own variables; the other   *)
(* parts' variables stay at their initial values.                          *)
(***************************************************************************)
EXTENDS Integers, Sequences, FiniteSets, TLC

\* ------------------------------------------------------------------ bounds
MaxStages == 3
MaxRoutes == 2
MaxWrites == 3
MaxCloses == 2
MaxRequests == 2
MaxBuilders == 4
MaxPairs == 3

\* =================================================================== state
\* the hook chain
VARIABLES mode, hooks, index, stack, calls, nexts, ret, cpc

chainVars == <<mode, hooks, index, stack, calls, nexts, ret, cpc>>

\* the validation gate
VARIABLES gImpl, gSchema, gKeyed, gReq, gCtype, gpc, gResult, gNextCalls, gNextCtx, gRan,
          gBodyKey, gThrew, gCtxAfter

gateVars == <<gImpl, gSchema, gKeyed, gReq, gCtype, gpc, gResult, gNextCalls, gNextCtx, gRan,
              gBodyKey, gThrew, gCtxAfter>>

\* the dispatcher
VARIABLES routes, reqMethod, reqPath, urlOk, bodyBad, handlerKind,
          spc, matched, bodyParsed, invoked, response, headersSent, escaped, logged

srvVars == <<routes, reqMethod, reqPath, urlOk, bodyBad, handlerKind,
             spc, matched, bodyParsed, invoked, response, headersSent, escaped, logged>>

\* the event stream
VARIABLES hPhase, returnsCleanup, sState, queue, closeRequested, cleanupCalls,
          written, delivered, consumerDone, cancelled, thrown, closeCalls,
          closedBeforeCancel, lateChunks, lateThrows

sseVars == <<hPhase, returnsCleanup, sState, queue, closeRequested, cleanupCalls,
             written, delivered, consumerDone, cancelled, thrown, closeCalls,
             closedBeforeCancel, lateChunks, lateThrows>>

\* one chain, composed once, run by several requests
VARIABLES rMode, rLen, cell, rStack, rCalls, rRet, rpc, overlap

reuseVars == <<rMode, rLen, cell, rStack, rCalls, rRet, rpc, overlap>>

\* one gate, constructed once, validating several requests
VARIABLES vpc, vCompiled, running, vIn, vData, vK, vPhase, vCell, vErrs, vRes, vStat

valVars == <<vpc, vCompiled, running, vIn, vData, vK, vPhase, vCell, vErrs, vRes, vStat>>

\* writeResponse streaming a ReadableStream body onto the response
VARIABLES tKind, tpc, tOutcome, tFailed, resEnds, wire, disconnected, readerLocked

transVars == <<tKind, tpc, tOutcome, tFailed, resEnds, wire, disconnected, readerLocked>>

VARIABLES heap, builders

buildVars == <<heap, builders>>

VARIABLES searchParams, qIndex, query

queryVars == <<searchParams, qIndex, query>>

VARIABLES tree, dStack, dHeap, dResult

discVars == <<tree, dStack, dHeap, dResult>>

VARIABLES rOutcome, rReturned, rSerialized, reqpc, wpc, rSource, rWritten, rChunks, rEnds, rLogged

respVars == <<rOutcome, rReturned, rSerialized, reqpc, wpc, rSource, rWritten, rChunks, rEnds, rLogged>>

vars == <<chainVars, gateVars, srvVars, sseVars, reuseVars, valVars, transVars, buildVars, queryVars, discVars, respVars>>

\* =================================================================== chain

\* What a stage does with (ctx, next):
\*   "pass"  return next({...ctx, added})         (sample.ts auth, route.test.ts hooks)
\*   "short" return a Result, next is not called  (sample.ts auth, unauthorized())
\*   "wrap"  result = await next(ctx); return a new Result built from it
\*                                                 (middleware/json-serializer.ts)
\*   "twice" await next(..) and then return next(..) a second time
StageKinds == {"pass", "short", "wrap", "twice"}

Modes == {"compose", "compile", "compileFn"}

RECURSIVE SeqsUpTo(_, _)
SeqsUpTo(S, n) ==
    IF n = 0 THEN {<<>>}
    ELSE LET shorter == SeqsUpTo(S, n - 1)
         IN shorter \cup {Append(s, x) : s \in {t \in shorter : Len(t) = n - 1}, x \in S}

\* Results: from = 0 is the Result of finalNext (the handler), from = i > 0 the
\* Result stage i built itself, from = -1 a thrown TypeError; wraps lists the
\* stages that rebuilt the Result on its way out (innermost first).
NoResult == [from |-> -2, ctx |-> {}, wraps |-> <<>>, threw |-> FALSE]
FinalResult(c) == [from |-> 0, ctx |-> c, wraps |-> <<>>, threw |-> FALSE]
StageResult(i, c) == [from |-> i, ctx |-> c, wraps |-> <<>>, threw |-> FALSE]
TypeErrorThrown == [from |-> -1, ctx |-> {}, wraps |-> <<>>, threw |-> TRUE]

\* json-serializer.ts 27-34: a new Result object built from the inner one
Serialized(i, r) == [r EXCEPT !.wraps = Append(@, i)]

\* the context a stage passes on: {...ctx, added} or ctx itself
Enriched(i, c) == IF hooks[i] = "wrap" THEN c ELSE c \cup {i}

StageFrame(i, c) == [stage |-> i, ctx |-> c, phase |-> "start"]

\* finalNext(ctx): the terminal handler runs and its Result comes back
CallFinal(c, stk, idx) ==
    /\ calls' = Append(calls, [who |-> 0, ctx |-> c])
    /\ ret' = FinalResult(c)
    /\ stack' = stk
    /\ index' = idx

\* hooks[i](ctx, next): the stage starts
CallStage(i, c, stk, idx) ==
    /\ calls' = Append(calls, [who |-> i, ctx |-> c])
    /\ stack' = Append(stk, StageFrame(i, c))
    /\ index' = idx
    /\ ret' = ret

\* hooks.ts 31-39: dispatch of a chain of two or more hooks
PreIncrementDispatch(c, stk) ==
    IF index + 1 >= Len(hooks) THEN CallFinal(c, stk, index)
    ELSE CallStage(index + 2, c, stk, index + 1)

dispatch(c, stk) ==
    IF index >= Len(hooks) THEN CallFinal(c, stk, index)
    ELSE CallStage(index + 1, c, stk, index + 1)

\* compile-chain.ts 13-21: run over chain = [middleware..., handler]
run(c, stk) ==
    LET chainLen == Len(hooks) + 1
        current == index + 1
    IN IF current = chainLen THEN CallFinal(c, stk, index + 1)
       ELSE IF current < chainLen THEN CallStage(current, c, stk, index + 1)
       ELSE \* chain[index] is undefined: calling it throws a TypeError
            /\ calls' = calls
            /\ ret' = TypeErrorThrown
            /\ stack' = stk
            /\ index' = index + 1

\* the continuation a stage holds as `next`
NextFn(c, stk) ==
    CASE mode = "compose" /\ Len(hooks) <= 1 -> CallFinal(c, stk, index)
      [] mode = "compose" -> dispatch(c, stk)
      [] OTHER -> run(c, stk)

\* a chain that goes on to the following stage after a stage has returned
RunsOnAfterReturn(r, stk) ==
    IF index < Len(hooks) THEN CallStage(index + 1, r.ctx, stk, index + 1)
    ELSE CallFinal(r.ctx, stk, index)

\* hooks.ts 38, compile-chain.ts 21: `return hook(ctx, dispatch)`: what the stage
\* returns is what its caller's next() yields, and nothing else runs
StageReturns(r, stk) ==
    /\ stack' = stk
    /\ ret' = r
    /\ UNCHANGED <<index, calls>>

ChainInit ==
    /\ mode \in Modes
    /\ hooks \in SeqsUpTo(StageKinds, MaxStages)
    /\ mode = "compileFn" => hooks = <<>>
    /\ index = 0
    /\ stack = <<>>
    /\ calls = <<>>
    /\ nexts = <<>>
    /\ ret = NoResult
    /\ cpc = "idle"

\* composed(ctx, finalNext) / compiled(initialCtx)
Invoke ==
    /\ UNCHANGED <<gateVars, srvVars, sseVars, reuseVars, valVars, transVars, buildVars, queryVars,
                 discVars,
                 respVars>>
    /\ cpc = "idle"
    /\ cpc' = "running"
    /\ nexts' = nexts
    /\ UNCHANGED <<mode, hooks>>
    /\ CASE mode = "compose" /\ Len(hooks) = 0 -> CallFinal({}, <<>>, index)
         [] mode = "compose" /\ Len(hooks) = 1 -> CallStage(1, {}, <<>>, index)
         [] mode = "compose" -> dispatch({}, <<>>)
         [] mode = "compileFn" -> CallFinal({}, <<>>, index)
         [] OTHER -> run({}, <<>>)

Top == stack[Len(stack)]
Below == SubSeq(stack, 1, Len(stack) - 1)

\* a stage starts running its body
StageStart ==
    /\ UNCHANGED <<gateVars, srvVars, sseVars, reuseVars, valVars, transVars, buildVars, queryVars,
                 discVars,
                 respVars>>
    /\ cpc = "running"
    /\ stack # <<>>
    /\ Top.phase = "start"
    /\ UNCHANGED <<mode, hooks, cpc>>
    /\ IF hooks[Top.stage] = "short"
       THEN /\ StageReturns(StageResult(Top.stage, Top.ctx), Below)
            /\ UNCHANGED nexts
       ELSE /\ nexts' = Append(nexts, [who |-> Top.stage, ctx |-> Enriched(Top.stage, Top.ctx)])
            /\ NextFn(Enriched(Top.stage, Top.ctx),
                      Append(Below, [Top EXCEPT !.phase = "await1"]))

\* the next() a stage was waiting for has settled
StageResume ==
    /\ UNCHANGED <<gateVars, srvVars, sseVars, reuseVars, valVars, transVars, buildVars, queryVars,
                 discVars,
                 respVars>>
    /\ cpc = "running"
    /\ stack # <<>>
    /\ Top.phase \in {"await1", "await2"}
    /\ UNCHANGED <<mode, hooks, cpc>>
    /\ IF ret.threw \/ hooks[Top.stage] = "pass" \/ Top.phase = "await2"
       THEN /\ StageReturns(ret, Below)
            /\ UNCHANGED nexts
       ELSE IF hooks[Top.stage] = "wrap"
       THEN /\ StageReturns(Serialized(Top.stage, ret), Below)
            /\ UNCHANGED nexts
       ELSE /\ nexts' = Append(nexts, [who |-> Top.stage, ctx |-> Enriched(Top.stage, Top.ctx)])
            /\ NextFn(Enriched(Top.stage, Top.ctx),
                      Append(Below, [Top EXCEPT !.phase = "await2"]))

\* the outermost call has returned: ret is the chain's Result
ChainReturn ==
    /\ UNCHANGED <<gateVars, srvVars, sseVars, reuseVars, valVars, transVars, buildVars, queryVars,
                 discVars,
                 respVars>>
    /\ cpc = "running"
    /\ stack = <<>>
    /\ cpc' = "done"
    /\ UNCHANGED <<mode, hooks, index, stack, calls, nexts, ret>>

ChainNext == Invoke \/ StageStart \/ StageResume \/ ChainReturn


\* ============================================================ chain, reused
\* One composed chain (route-builder.ts: composeBeforeHooks(this.config.hooks),
\* compileChain(chain)) serves every request of its route.  Each stage here calls
\* next once, after a suspension, and returns what next returned; the handler
\* suspends once before it returns.

Requests == 1..MaxRequests

\* the context a request starts with, and what stage i adds to it
RequestCtx(r) == {0 - r}
RStageCtx(r, i) == RequestCtx(r) \cup (1..i)

\* one `index` for the whole chain, set to 0 at every invocation
SharedIndexCell(r) == 1

\* hooks.ts 29, compile-chain.ts 11: `let index = 0` in the closure of one invocation
IndexCell(r) == r

RFrame(who, c) == [stage |-> who, ctx |-> c, phase |-> "start"]

\* hooks[i](ctx, next) or finalNext(ctx) is called on behalf of request r
RCall(r, who, c, stk) ==
    /\ rCalls' = [rCalls EXCEPT ![r] = Append(@, [who |-> who, ctx |-> c])]
    /\ rStack' = [rStack EXCEPT ![r] = Append(stk, RFrame(who, c))]
    /\ rRet' = rRet

\* hooks.ts 31-39
RDispatch(r, c, stk) ==
    LET idx == cell[IndexCell(r)]
    IN IF idx >= rLen
       THEN RCall(r, 0, c, stk) /\ cell' = cell
       ELSE RCall(r, idx + 1, c, stk) /\ cell' = [cell EXCEPT ![IndexCell(r)] = idx + 1]

\* compile-chain.ts 13-21
RRun(r, c, stk) ==
    LET current == cell[IndexCell(r)] + 1
    IN /\ cell' = [cell EXCEPT ![IndexCell(r)] = current]
       /\ IF current = rLen + 1 THEN RCall(r, 0, c, stk)
          ELSE IF current < rLen + 1 THEN RCall(r, current, c, stk)
          ELSE \* chain[index] is undefined: calling it throws a TypeError
               /\ rRet' = [rRet EXCEPT ![r] = TypeErrorThrown]
               /\ rStack' = [rStack EXCEPT ![r] = stk]
               /\ rCalls' = rCalls

\* the continuation a stage of request r holds as `next`
RNextFn(r, c, stk) ==
    CASE rMode = "compose" /\ rLen <= 1 -> RCall(r, 0, c, stk) /\ cell' = cell
      [] rMode = "compose" -> RDispatch(r, c, stk)
      [] OTHER -> RRun(r, c, stk)

ReuseInit ==
    /\ rMode \in {"compose", "compile"}
    /\ rLen \in 0..MaxStages
    /\ cell = [r \in Requests |-> 0]
    /\ rStack = [r \in Requests |-> <<>>]
    /\ rCalls = [r \in Requests |-> <<>>]
    /\ rRet = [r \in Requests |-> NoResult]
    /\ rpc = [r \in Requests |-> "idle"]
    /\ overlap = FALSE

\* composed(ctx, finalNext) / compiled(initialCtx) for request r
RInvoke(r) ==
    /\ UNCHANGED <<chainVars, gateVars, srvVars, sseVars, valVars, transVars, buildVars, queryVars,
                 discVars,
                 respVars>>
    /\ rpc[r] = "idle"
    /\ rpc' = [rpc EXCEPT ![r] = "running"]
    /\ overlap' = (overlap \/ \E q \in Requests : rpc[q] = "running")
    /\ UNCHANGED <<rMode, rLen>>
    /\ CASE rMode = "compose" /\ rLen = 0 -> RCall(r, 0, RequestCtx(r), <<>>) /\ cell' = cell
         [] rMode = "compose" /\ rLen = 1 -> RCall(r, 1, RequestCtx(r), <<>>) /\ cell' = cell
         [] rMode = "compose" ->
               \E zeroed \in {[cell EXCEPT ![IndexCell(r)] = 0]} :
                  LET idx == zeroed[IndexCell(r)]
                  IN IF idx >= rLen
                     THEN RCall(r, 0, RequestCtx(r), <<>>) /\ cell' = zeroed
                     ELSE /\ RCall(r, idx + 1, RequestCtx(r), <<>>)
                          /\ cell' = [zeroed EXCEPT ![IndexCell(r)] = idx + 1]
         [] OTHER ->
               /\ cell' = [cell EXCEPT ![IndexCell(r)] = 1]
               /\ IF rLen = 0 THEN RCall(r, 0, RequestCtx(r), <<>>)
                  ELSE RCall(r, 1, RequestCtx(r), <<>>)

RTop(r) == rStack[r][Len(rStack[r])]
RBelow(r) == SubSeq(rStack[r], 1, Len(rStack[r]) - 1)

\* a stage of request r comes back from its suspension and calls next
RStageCallsNext(r) ==
    /\ UNCHANGED <<chainVars, gateVars, srvVars, sseVars, valVars, transVars, buildVars, queryVars,
                 discVars,
                 respVars>>
    /\ rpc[r] = "running"
    /\ rStack[r] # <<>>
    /\ RTop(r).phase = "start"
    /\ RTop(r).stage # 0
    /\ UNCHANGED <<rMode, rLen, rpc, overlap>>
    /\ RNextFn(r, RTop(r).ctx \cup {RTop(r).stage},
               Append(RBelow(r), [RTop(r) EXCEPT !.phase = "await"]))

\* the handler of request r comes back from its suspension and returns its Result
RHandlerReturns(r) ==
    /\ UNCHANGED <<chainVars, gateVars, srvVars, sseVars, valVars, transVars, buildVars, queryVars,
                 discVars,
                 respVars>>
    /\ rpc[r] = "running"
    /\ rStack[r] # <<>>
    /\ RTop(r).phase = "start"
    /\ RTop(r).stage = 0
    /\ rRet' = [rRet EXCEPT ![r] = FinalResult(RTop(r).ctx)]
    /\ rStack' = [rStack EXCEPT ![r] = RBelow(r)]
    /\ UNCHANGED <<rMode, rLen, rpc, overlap, cell, rCalls>>

\* `return next(...)`: the stage returns what its next returned (or threw)
RStageReturns(r) ==
    /\ UNCHANGED <<chainVars, gateVars, srvVars, sseVars, valVars, transVars, buildVars, queryVars,
                 discVars,
                 respVars>>
    /\ rpc[r] = "running"
    /\ rStack[r] # <<>>
    /\ RTop(r).phase = "await"
    /\ rStack' = [rStack EXCEPT ![r] = RBelow(r)]
    /\ UNCHANGED <<rMode, rLen, rpc, overlap, cell, rCalls, rRet>>

\* the outermost call of request r has returned
RChainReturn(r) ==
    /\ UNCHANGED <<chainVars, gateVars, srvVars, sseVars, valVars, transVars, buildVars, queryVars,
                 discVars,
                 respVars>>
    /\ rpc[r] = "running"
    /\ rStack[r] = <<>>
    /\ rpc' = [rpc EXCEPT ![r] = "done"]
    /\ UNCHANGED <<rMode, rLen, overlap, cell, rStack, rCalls, rRet>>

ReuseNext ==
    \E r \in Requests :
        \/ RInvoke(r)
        \/ RStageCallsNext(r)
        \/ RHandlerReturns(r)
        \/ RStageReturns(r)
        \/ RChainReturn(r)

\* ==================================================================== gate

\* the two gates: createValidationMiddleware (route() builder) and handle()
GateImpls == {"middleware", "handle"}

SourceNames == {"params", "query", "headers", "body"}

\* ---- values: JSON scalars and flat objects
Str(x) == [t |-> "str", s |-> x, n |-> 0]
Num(x) == [t |-> "num", s |-> "", n |-> x]
EmptyObj == [f \in {} |-> Str("")]
Obj(o) == [t |-> "obj", o |-> o]
Undefined == [t |-> "undef", o |-> EmptyObj]
ObjV(x) == Obj([f \in {"v"} |-> x])
\* { v: x, x: 'extra' }: an object with a property no schema declares
ObjVX(x) == Obj([f \in {"v", "x"} |-> IF f = "v" THEN x ELSE Str("extra")])

\* ---- schemas: Type.Object({ v: ... }) as TypeBox emits it for AJV
\* root: the schema describes the value itself (Type.Integer()), not a field of it
\* optional: v is Type.Optional (not in required); hasDefault: v declares
\* default: 'dflt'; strict: the object is declared { additionalProperties: false }
SchemaOf(type, hasMin, root, optional, hasDefault, strict) ==
    [declared |-> TRUE, type |-> type, hasMin |-> hasMin, min |-> IF hasMin THEN 1 ELSE 0,
     root |-> root, optional |-> optional, hasDefault |-> hasDefault, strict |-> strict]
NoSchema == [declared |-> FALSE, type |-> "none", hasMin |-> FALSE, min |-> 0, root |-> FALSE,
             optional |-> FALSE, hasDefault |-> FALSE, strict |-> FALSE]
ObjString == SchemaOf("string", FALSE, FALSE, FALSE, FALSE, FALSE)
ObjIntegerMin1 == SchemaOf("integer", TRUE, FALSE, FALSE, FALSE, FALSE)
RootInteger == SchemaOf("integer", FALSE, TRUE, FALSE, FALSE, FALSE)
\* Type.Object({ v: Type.Optional(Type.String({ default: 'dflt' })) })
ObjOptionalDefault == SchemaOf("string", FALSE, FALSE, TRUE, TRUE, FALSE)
\* Type.Object({ v: Type.String() }, { additionalProperties: false })
ObjStrict == SchemaOf("string", FALSE, FALSE, FALSE, FALSE, TRUE)
DefaultValue == Str("dflt")
Schemas == {NoSchema, ObjString, ObjIntegerMin1}
BodySchemas == Schemas \cup {RootInteger}

\* ---- AJV: new Ajv({ allErrors: true, coerceTypes: true, ... })
\* the options of the instance each gate compiles with
AjvOptions ==
    IF gImpl = "handle" THEN [useDefaults |-> TRUE, removeAdditional |-> TRUE]
    ELSE [useDefaults |-> FALSE, removeAdditional |-> FALSE]

IsNumeric(x) == x \in {"0", "5"}
StrToNumber(x) == IF x = "5" THEN 5 ELSE 0
NumToString(x) == IF x = 5 THEN "5" ELSE "0"

CanCoerce(sch, x) ==
    IF sch.type = "integer" THEN x.t = "num" \/ (x.t = "str" /\ IsNumeric(x.s))
    ELSE x.t \in {"str", "num"}

Coerce(sch, x) ==
    IF sch.type = "integer"
    THEN IF x.t = "str" THEN Num(StrToNumber(x.s)) ELSE x
    ELSE IF x.t = "num" THEN Str(NumToString(x.n)) ELSE x

AjvError(path, keyword) == [path |-> path, keyword |-> keyword]

\* the properties of an object that its schema does not declare
Additional(obj) == DOMAIN obj \ {"v"}

\* useDefaults: a missing property that declares a default is assigned it first
FillsDefault(sch, obj) == AjvOptions.useDefaults /\ sch.hasDefault /\ "v" \notin DOMAIN obj

\* validate(data): the errors (validate.errors) of one compiled validator; for an
\* object the keywords run in the order required, additionalProperties, properties
AjvErrors(sch, val) ==
    IF sch.root
    THEN IF val.t \notin {"str", "num"} \/ ~CanCoerce(sch, val) THEN <<AjvError("", "type")>>
         ELSE IF sch.hasMin /\ Coerce(sch, val).n < sch.min THEN <<AjvError("", "minimum")>>
         ELSE <<>>
    ELSE IF val.t # "obj" THEN <<AjvError("", "type")>>
    ELSE (IF "v" \notin DOMAIN val.o /\ ~sch.optional /\ ~FillsDefault(sch, val.o)
          THEN <<AjvError("", "required")>> ELSE <<>>)
         \o (IF sch.strict /\ Additional(val.o) # {} /\ ~AjvOptions.removeAdditional
             THEN <<AjvError("", "additionalProperties")>> ELSE <<>>)
         \o (IF "v" \notin DOMAIN val.o THEN <<>>
             ELSE IF ~CanCoerce(sch, val.o["v"]) THEN <<AjvError("/v", "type")>>
             ELSE IF sch.hasMin /\ Coerce(sch, val.o["v"]).n < sch.min
                  THEN <<AjvError("/v", "minimum")>>
             ELSE <<>>)

\* a validator that deletes the property it could not coerce
AjvDataDropsInvalid(sch, val) ==
    IF sch.root \/ val.t # "obj" THEN val
    ELSE Obj([f \in {g \in DOMAIN val.o : g # "v" \/ CanCoerce(sch, val.o["v"])} |->
                IF f = "v" THEN Coerce(sch, val.o["v"]) ELSE val.o[f]])

\* validate(data) also rewrites data in place: it deletes the additional properties
\* (removeAdditional), assigns the default (useDefaults) and assigns a coerced value
\* to parentData[property], so a value without a parent (the data itself) stays as
\* it was
AjvData(sch, val) ==
    IF sch.root \/ val.t # "obj" THEN val
    ELSE LET kept == IF sch.strict /\ AjvOptions.removeAdditional
                     THEN DOMAIN val.o \cap {"v"} ELSE DOMAIN val.o
             dom == IF FillsDefault(sch, val.o) THEN kept \cup {"v"} ELSE kept
         IN Obj([f \in dom |->
                   IF f # "v" THEN val.o[f]
                   ELSE IF "v" \notin DOMAIN val.o THEN DefaultValue
                   ELSE IF CanCoerce(sch, val.o["v"]) THEN Coerce(sch, val.o["v"])
                   ELSE val.o["v"]])

AjvMessage(keyword) ==
    CASE keyword = "type" -> "must be of the declared type"
      [] keyword = "required" -> "must have required property 'v'"
      [] keyword = "minimum" -> "must be >= 1"
      [] keyword = "additionalProperties" -> "must NOT have additional properties"
      [] OTHER -> "Invalid"

RECURSIVE Flatten(_)
Flatten(ss) == IF ss = <<>> THEN <<>> ELSE Head(ss) \o Flatten(Tail(ss))

MapSeq(Op(_), sq) == [k \in 1..Len(sq) |-> Op(sq[k])]

\* ---- Content-Type, handle.ts 315: split(';')[0].trim().toLocaleLowerCase()
NoHeader == "<absent>"
ContentTypes == {NoHeader, "; charset=utf-8", "application/json",
                 "Application/JSON; charset=utf-8", " text/plain ;q=1", "text/html",
                 "Text/Markdown"}

\* a lookup by the header as it was sent
NormalizeNothing(h) == h

Normalize(h) ==
    CASE h = "Application/JSON; charset=utf-8" -> "application/json"
      [] h = " text/plain ;q=1" -> "text/plain"
      [] h = "Text/Markdown" -> "text/markdown"
      [] h = "; charset=utf-8" -> ""
      [] OTHER -> h
\* toLocaleLowerCase() of a declared key (the code never applies it to a key)
LowerCase(key) == IF key = "Text/Markdown" THEN "text/markdown" ELSE key
\* contentType({ 'application/json': <the body schema>, 'text/plain': ObjString,
\*               'Text/Markdown': ObjString }): the keys as declared
SupportedTypes == <<"application/json", "text/plain", "Text/Markdown">>
BodyByContentType(ct) == IF ct = "application/json" THEN gSchema["body"] ELSE ObjString

\* ---- middleware/validation.ts 33-81
\* a middleware that validates the body first
MwBodyFirst == <<"body", "params", "query", "headers">>

\* the sources in the order the middleware validates them
MiddlewareOrder == <<"params", "query", "headers", "body">>

MwFailed(src) == gSchema[src].declared /\ AjvErrors(gSchema[src], gReq[src]) # <<>>

MwFieldError(src, e) == [field |-> <<src, e.path>>, message |-> AjvMessage(e.keyword)]

MwSourceErrors(src) ==
    IF MwFailed(src)
    THEN LET F(e) == MwFieldError(src, e) IN MapSeq(F, AjvErrors(gSchema[src], gReq[src]))
    ELSE <<>>

\* a gate that stops at the first failing source
MwFirstErrorOnly ==
    LET failing == {k \in 1..4 : MwFailed(MiddlewareOrder[k])}
    IN IF failing = {} THEN <<>>
       ELSE MwSourceErrors(MiddlewareOrder[CHOOSE k \in failing : \A m \in failing : k <= m])

\* a gate that never looks at the headers validator
MwSkipsHeaders ==
    Flatten([k \in 1..4 |->
        IF MiddlewareOrder[k] = "headers" THEN <<>> ELSE MwSourceErrors(MiddlewareOrder[k])])

MwErrors == Flatten([k \in 1..4 |-> MwSourceErrors(MiddlewareOrder[k])])

MwRan == SelectSeq(MiddlewareOrder, LAMBDA src : gSchema[src].declared)

\* the ctx handed to next: the same object, rewritten in place by the validators
MwCtx == [src \in SourceNames |->
             IF gSchema[src].declared THEN AjvData(gSchema[src], gReq[src]) ELSE gReq[src]]

\* ---- handle.ts 281-387
\* a read of the header that dereferences req.headers without ?.
UnguardedHeaderRead(headers) ==
    [threw |-> headers.t = "undef", value |-> IF headers.t = "undef" THEN NoHeader ELSE gCtype]

\* req.headers?.['content-type']: undefined, and no TypeError, when req.headers is
\* undefined
HeaderRead(headers) ==
    [threw |-> FALSE, value |-> IF headers.t = "undef" THEN NoHeader ELSE gCtype]

\* the header is read only on the path of a content-type-keyed body
HandleThrows == gSchema["body"].declared /\ gKeyed /\ HeaderRead(gReq["headers"]).threw

HandleOrder == <<"params", "query", "body", "headers">>

\* validators.x(req.x ?? {})
OrEmpty(val) == IF val.t = "undef" THEN Obj(EmptyObj) ELSE val

\* a content-type error whose message leaves the supported types out
ContentTypeErrorBare(msg) ==
    [path |-> "/", message |-> <<msg[1], <<>>>>, keyword |-> "contentType"]

ContentTypeError(msg) == [path |-> "/", message |-> msg, keyword |-> "contentType"]

FormatErrors(errs) ==
    LET F(e) == [path |-> IF e.path = "" THEN "/" ELSE e.path,
                 message |-> AjvMessage(e.keyword), keyword |-> e.keyword]
    IN MapSeq(F, errs)

\* the errors handle() records for one source (<<>>: the source passed)
HandleSourceErrors(src) ==
    IF ~gSchema[src].declared THEN <<>>
    ELSE IF src = "body" /\ gKeyed
    THEN IF gCtype = NoHeader \/ Normalize(gCtype) = ""
         THEN <<ContentTypeError(<<"Content-Type header is required. Supported: ",
                                   SupportedTypes>>)>>
         ELSE IF Normalize(gCtype) \in {SupportedTypes[k] : k \in 1..Len(SupportedTypes)}
         THEN FormatErrors(AjvErrors(BodyByContentType(Normalize(gCtype)), OrEmpty(gReq[src])))
         ELSE <<ContentTypeError(<<"Unsupported Content-Type: ", Normalize(gCtype),
                                   ". Supported: ", SupportedTypes>>)>>
    ELSE FormatErrors(AjvErrors(gSchema[src], OrEmpty(gReq[src])))

HandleDetail(src) == [field |-> src, errors |-> HandleSourceErrors(src)]

\* a gate that stops at the first failing source
HandleFirstErrorOnly ==
    LET failing == {k \in 1..4 : HandleSourceErrors(HandleOrder[k]) # <<>>}
    IN IF failing = {} THEN <<>>
       ELSE <<HandleDetail(HandleOrder[CHOOSE k \in failing : \A m \in failing : k <= m])>>

HandleDetails ==
    Flatten([k \in 1..4 |->
        IF HandleSourceErrors(HandleOrder[k]) # <<>> THEN <<HandleDetail(HandleOrder[k])>>
        ELSE <<>>])

\* the validators handle() runs, in order (none for a body whose type is not keyed)
HandleRan ==
    SelectSeq(HandleOrder, LAMBDA src :
        /\ gSchema[src].declared
        /\ (src = "body" /\ gKeyed) =>
              Normalize(gCtype) \in {SupportedTypes[k] : k \in 1..Len(SupportedTypes)})

\* handle.ts 332: the key whose validator is looked up and run ("": none is run)
HandleBodyKey ==
    IF /\ gSchema["body"].declared /\ gKeyed /\ gCtype # NoHeader
       /\ Normalize(gCtype) \in {SupportedTypes[k] : k \in 1..Len(SupportedTypes)}
    THEN Normalize(gCtype) ELSE ""

HandleSchemaOf(src) ==
    IF src = "body" /\ gKeyed THEN BodyByContentType(Normalize(gCtype)) ELSE gSchema[src]

\* req as the handler sees it: a value that was undefined stays undefined
HandleCtx == [src \in SourceNames |->
    IF src \in {HandleRan[k] : k \in 1..Len(HandleRan)} /\ gReq[src].t = "obj"
    THEN AjvData(HandleSchemaOf(src), gReq[src]) ELSE gReq[src]]

\* a gate that validates a copy and leaves the context it was given alone
CtxCopiedByGate == gReq

\* the context the gate was given, once the gate has returned: the validators were
\* run on ctx.params, ctx.query, ... themselves, on success and on 400 alike
CtxAfterGate == IF gImpl = "middleware" THEN MwCtx ELSE HandleCtx

\* ---- Results of the gate
NoGateResult == [statusCode |-> 0, body |-> [none |-> TRUE]]
\* badRequest(data), and the literal { statusCode: 400, body: { errors } }
BadRequest(data) == [statusCode |-> 400, body |-> data]
NextResult == [statusCode |-> 200, body |-> [ok |-> TRUE]]

GateValues == {Obj(EmptyObj), ObjV(Str("abc")), ObjV(Str("0"))}
\* parseBody: nothing, a parsed JSON value, or the text of a text/plain body
BodyValues == GateValues \cup {Undefined, ObjV(Num(5)), Str("5")}

GateInit ==
    /\ gImpl \in GateImpls
    /\ gSchema \in [SourceNames -> BodySchemas]
    /\ \A src \in SourceNames \ {"body"} : gSchema[src] \in Schemas
    /\ gKeyed \in BOOLEAN
    /\ gKeyed => (gImpl = "handle" /\ gSchema["body"].declared)
    /\ gReq \in [SourceNames -> BodyValues]
    /\ \A src \in SourceNames \ {"body"} : gReq[src] \in GateValues
    /\ gCtype \in ContentTypes
    /\ ~gKeyed => gCtype = NoHeader
    /\ gpc = "idle"
    /\ gResult = NoGateResult
    /\ gNextCalls = 0
    /\ gNextCtx = gReq
    /\ gRan = <<>>
    /\ gBodyKey = ""
    /\ gThrew = FALSE
    /\ gCtxAfter = gReq

\* the gate with the schema options and the absent values: an optional field with
\* a default, additionalProperties: false, and sources that are undefined (a
\* request without a headers object carries no Content-Type)
OptionSchemas == {NoSchema, ObjString, ObjOptionalDefault, ObjStrict}
OptionValues == {Undefined, Obj(EmptyObj), ObjV(Str("abc")), ObjVX(Str("abc"))}
OptionContentTypes == {NoHeader, "application/json", "Application/JSON; charset=utf-8",
                       "text/html"}

GateOptionsInit ==
    /\ gImpl \in GateImpls
    /\ gSchema \in [SourceNames -> OptionSchemas]
    /\ gSchema["params"] \in {NoSchema, ObjString}
    /\ gSchema["headers"] \in {NoSchema, ObjString}
    /\ gKeyed \in BOOLEAN
    /\ gKeyed => (gImpl = "handle" /\ gSchema["body"].declared)
    /\ gReq \in [SourceNames -> OptionValues]
    /\ gReq["params"] \in {Undefined, ObjV(Str("abc"))}
    /\ gReq["headers"] \in {Undefined, Obj(EmptyObj), ObjV(Str("abc"))}
    /\ gCtype \in OptionContentTypes
    /\ (~gKeyed \/ gReq["headers"] = Undefined) => gCtype = NoHeader
    /\ gpc = "idle"
    /\ gResult = NoGateResult
    /\ gNextCalls = 0
    /\ gNextCtx = gReq
    /\ gRan = <<>>
    /\ gBodyKey = ""
    /\ gThrew = FALSE
    /\ gCtxAfter = gReq

\* validationMiddleware(ctx, next), validation.ts 33-81
ValidationMiddleware ==
    /\ UNCHANGED <<chainVars, srvVars, sseVars, reuseVars, valVars, transVars, buildVars, queryVars,
                 discVars,
                 respVars>>
    /\ gpc = "idle"
    /\ gImpl = "middleware"
    /\ gRan' = MwRan
    /\ UNCHANGED <<gBodyKey, gThrew>>
    /\ gCtxAfter' = CtxAfterGate
    /\ IF MwErrors # <<>>
       THEN /\ gResult' = BadRequest([errors |-> MwErrors])
            /\ gpc' = "done"
            /\ UNCHANGED <<gNextCalls, gNextCtx>>
       ELSE /\ gNextCalls' = gNextCalls + 1
            /\ gNextCtx' = MwCtx
            /\ gpc' = "next"
            /\ UNCHANGED gResult
    /\ UNCHANGED <<gImpl, gSchema, gKeyed, gReq, gCtype>>

\* the RequestHandler returned by handle(), handle.ts 281-387
HandleGate ==
    /\ UNCHANGED <<chainVars, srvVars, sseVars, reuseVars, valVars, transVars, buildVars, queryVars,
                 discVars,
                 respVars>>
    /\ gpc = "idle"
    /\ gImpl = "handle"
    /\ gRan' = HandleRan
    /\ gBodyKey' = HandleBodyKey
    /\ gThrew' = HandleThrows
    /\ gCtxAfter' = IF HandleThrows THEN gReq ELSE CtxAfterGate
    /\ IF HandleThrows
       THEN /\ gpc' = "done"
            /\ UNCHANGED <<gResult, gNextCalls, gNextCtx>>
       ELSE IF HandleDetails # <<>>
       THEN /\ gResult' = BadRequest([error |-> "Validation Failed", details |-> HandleDetails])
            /\ gpc' = "done"
            /\ UNCHANGED <<gNextCalls, gNextCtx>>
       ELSE /\ gNextCalls' = gNextCalls + 1
            /\ gNextCtx' = HandleCtx
            /\ gpc' = "next"
            /\ UNCHANGED gResult
    /\ UNCHANGED <<gImpl, gSchema, gKeyed, gReq, gCtype>>

\* next (the hooks and the handler) returns its Result through the gate
GateNextReturns ==
    /\ UNCHANGED <<chainVars, srvVars, sseVars, reuseVars, valVars, transVars, buildVars, queryVars,
                 discVars,
                 respVars>>
    /\ gpc = "next"
    /\ gResult' = NextResult
    /\ gpc' = "done"
    /\ UNCHANGED <<gImpl, gSchema, gKeyed, gReq, gCtype, gNextCalls, gNextCtx, gRan, gBodyKey,
                   gThrew, gCtxAfter>>

GateNext == ValidationMiddleware \/ HandleGate \/ GateNextReturns

\* ==================================================== one gate, many requests
\* handle(config, handler) / createValidationMiddleware(schema) is called once per
\* route; the function it returns closes over `validators` and serves every
\* request. A compiled validator keeps the errors of its last call on itself
\* (validate.errors), which vCell holds per source.

GateOrder == IF gImpl = "middleware" THEN MiddlewareOrder ELSE HandleOrder

\* ajv.compile calls at construction, in order: one per declared schema
CompiledAtConstruction ==
    SelectSeq(GateOrder, LAMBDA src : gSchema[src].declared)

\* a gate that compiles the schema again each time it validates
RecompiledOnRequest(src) == <<src>>

\* ajv.compile calls made while a request is served: none
CompiledOnRequest(src) == <<>>

\* position in GateOrder of the next declared source after k (5: none is left)
NextDeclared(k) ==
    LET later == {m \in (k + 1)..4 : gSchema[GateOrder[m]].declared}
    IN IF later = {} THEN 5 ELSE CHOOSE m \in later : \A n \in later : m <= n

\* an event loop that hands the turn to another request at any point
AlwaysSchedulable == TRUE

\* the gate's body holds no await: once a request's gate runs, no other request
\* runs before it has returned (400) or called next / the handler
EventLoopIdle == running = 0

\* the data handed to the validator: ctx.x, or req.x ?? {} in handle()
ValidatorInput(val) == IF gImpl = "handle" THEN OrEmpty(val) ELSE val

\* what the gate pushes for a source whose validator returned false
Pushed(src, errs) ==
    IF gImpl = "middleware"
    THEN LET F(e) == MwFieldError(src, e) IN MapSeq(F, errs)
    ELSE <<[field |-> src, errors |-> FormatErrors(errs)]>>

GateBadRequest(pushed) ==
    IF gImpl = "middleware" THEN BadRequest([errors |-> pushed])
    ELSE BadRequest([error |-> "Validation Failed", details |-> pushed])

SharedSchemas ==
    {sc \in [SourceNames -> {NoSchema, ObjIntegerMin1, ObjOptionalDefault, ObjStrict}] :
        /\ sc["params"] = NoSchema /\ sc["headers"] = NoSchema
        /\ sc["query"] \in {ObjIntegerMin1, ObjOptionalDefault}
        /\ sc["body"] \in {NoSchema, ObjStrict}}

SharedInputs ==
    {rq \in [SourceNames -> {Obj(EmptyObj), ObjV(Str("0")), ObjV(Str("5")), ObjV(Str("abc")),
                             ObjVX(Str("abc"))}] :
        /\ rq["params"] = Obj(EmptyObj) /\ rq["headers"] = Obj(EmptyObj)
        /\ rq["query"] \in {Obj(EmptyObj), ObjV(Str("0")), ObjV(Str("5")), ObjV(Str("abc"))}
        /\ rq["body"] \in {ObjV(Str("abc")), ObjVX(Str("abc"))}}

NoErrors == [src \in SourceNames |-> <<>>]

ValInit ==
    /\ gImpl \in GateImpls
    /\ gSchema \in SharedSchemas
    /\ gKeyed = FALSE /\ gReq = [src \in SourceNames |-> Obj(EmptyObj)]
    /\ gCtype = NoHeader /\ gpc = "idle" /\ gResult = NoGateResult
    /\ gNextCalls = 0 /\ gNextCtx = gReq /\ gRan = <<>> /\ gBodyKey = ""
    /\ gThrew = FALSE
    /\ gCtxAfter = gReq
    /\ vpc = "new"
    /\ vCompiled = <<>>
    /\ running = 0
    /\ vIn \in [Requests -> SharedInputs]
    /\ vData = vIn
    /\ vK = [r \in Requests |-> 0]
    /\ vPhase = [r \in Requests |-> "idle"]
    /\ vCell = NoErrors
    /\ vErrs = [r \in Requests |-> <<>>]
    /\ vRes = [r \in Requests |-> NoGateResult]
    /\ vStat = [r \in Requests |-> "idle"]

\* handle(config, handler) / createValidationMiddleware(schema): compile, return the gate
Construct ==
    /\ UNCHANGED <<chainVars, gateVars, srvVars, sseVars, reuseVars, transVars, buildVars, queryVars,
                 discVars,
                 respVars>>
    /\ vpc = "new"
    /\ vpc' = "built"
    /\ vCompiled' = CompiledAtConstruction
    /\ UNCHANGED <<running, vIn, vData, vK, vPhase, vCell, vErrs, vRes, vStat>>

\* the end of the gate's body for request r: 400, or next(ctx) / handler(req)
Finished(r, pushed) ==
    /\ running' = 0
    /\ vErrs' = [vErrs EXCEPT ![r] = pushed]
    /\ vPhase' = [vPhase EXCEPT ![r] = "idle"]
    /\ IF pushed # <<>>
       THEN /\ vRes' = [vRes EXCEPT ![r] = GateBadRequest(pushed)]
            /\ vStat' = [vStat EXCEPT ![r] = "done"]
       ELSE /\ vStat' = [vStat EXCEPT ![r] = "next"]
            /\ UNCHANGED vRes

\* the gate is invoked for request r
GateEnter(r) ==
    /\ UNCHANGED <<chainVars, gateVars, srvVars, sseVars, reuseVars, transVars, buildVars, queryVars,
                 discVars,
                 respVars>>
    /\ vpc = "built"
    /\ vStat[r] = "idle"
    /\ EventLoopIdle
    /\ vK' = [vK EXCEPT ![r] = NextDeclared(0)]
    /\ IF NextDeclared(0) = 5
       THEN Finished(r, <<>>)
       ELSE /\ running' = r
            /\ vStat' = [vStat EXCEPT ![r] = "gate"]
            /\ vPhase' = [vPhase EXCEPT ![r] = "validate"]
            /\ UNCHANGED <<vErrs, vRes>>
    /\ UNCHANGED <<vpc, vCompiled, vIn, vData, vCell>>

\* validators.x(data): records the errors on the validator, rewrites data in place
Validate(r) ==
    /\ UNCHANGED <<chainVars, gateVars, srvVars, sseVars, reuseVars, transVars, buildVars, queryVars,
                 discVars,
                 respVars>>
    /\ vStat[r] = "gate" /\ vPhase[r] = "validate"
    /\ LET src == GateOrder[vK[r]]
       IN /\ vCell' = [vCell EXCEPT ![src] =
                          AjvErrors(gSchema[src], ValidatorInput(vData[r][src]))]
          /\ vData' = [vData EXCEPT ![r][src] = AjvData(gSchema[src], vData[r][src])]
          /\ vCompiled' = vCompiled \o CompiledOnRequest(src)
    /\ vPhase' = [vPhase EXCEPT ![r] = "read"]
    /\ UNCHANGED <<vpc, running, vIn, vK, vErrs, vRes, vStat>>

\* if (!valid) errors.push(... validators.x.errors ...), then the next source
ReadErrors(r) ==
    /\ UNCHANGED <<chainVars, gateVars, srvVars, sseVars, reuseVars, transVars, buildVars, queryVars,
                 discVars,
                 respVars>>
    /\ vStat[r] = "gate" /\ vPhase[r] = "read"
    /\ LET src == GateOrder[vK[r]]
           pushed == IF vCell[src] = <<>> THEN vErrs[r] ELSE vErrs[r] \o Pushed(src, vCell[src])
       IN /\ vK' = [vK EXCEPT ![r] = NextDeclared(vK[r])]
          /\ IF NextDeclared(vK[r]) = 5
             THEN Finished(r, pushed)
             ELSE /\ vErrs' = [vErrs EXCEPT ![r] = pushed]
                  /\ vPhase' = [vPhase EXCEPT ![r] = "validate"]
                  /\ UNCHANGED <<running, vRes, vStat>>
    /\ UNCHANGED <<vpc, vCompiled, vIn, vData, vCell>>

\* next / the handler of request r returns its Result through the gate
NextReturns(r) ==
    /\ UNCHANGED <<chainVars, gateVars, srvVars, sseVars, reuseVars, transVars, buildVars, queryVars,
                 discVars,
                 respVars>>
    /\ vStat[r] = "next"
    /\ vRes' = [vRes EXCEPT ![r] = NextResult]
    /\ vStat' = [vStat EXCEPT ![r] = "done"]
    /\ UNCHANGED <<vpc, vCompiled, running, vIn, vData, vK, vPhase, vCell, vErrs>>

ValNext ==
    \/ Construct
    \/ \E r \in Requests :
        \/ GateEnter(r)
        \/ Validate(r)
        \/ ReadErrors(r)
        \/ NextReturns(r)


\* ============================================================== dispatcher

\* ---- route table: Routes = Record<pattern, Partial<Record<HttpMethod, Handler>>>
DynamicSegments == {":id", ":org"}
Patterns == {<<"users", ":id">>, <<"users", "me">>, <<"posts">>, <<":org", ":id">>}
Paths == {<<"users", "me">>, <<"users", "42">>, <<"posts">>, <<"posts", "42">>, <<"other">>}
Methods == {"get", "post", "delete"}
\* Object.keys(routes[pattern]): the registered methods in insertion order
MethodLists == {<<"get">>, <<"post">>, <<"get", "post">>, <<"post", "get">>}

Route(pat, ms) == [pattern |-> pat, methods |-> ms]

RouteTables ==
    {t \in SeqsUpTo({Route(pat, ms) : pat \in Patterns, ms \in MethodLists}, MaxRoutes) :
        \A a, b \in 1..Len(t) : a # b => t[a].pattern # t[b].pattern}

\* a matcher that takes a pattern for a match when it is a prefix of the path or
\* the path a prefix of it
MatchesPrefix(pat, path) ==
    \A k \in 1..Len(pat) : k <= Len(path) => (pat[k] \in DynamicSegments \/ pat[k] = path[k])

\* ---- Path Matcher (find-matching-route.ts): equal segment count, equal literals
Matches(pat, path) ==
    /\ Len(pat) = Len(path)
    /\ \A k \in 1..Len(pat) : pat[k] \in DynamicSegments \/ pat[k] = path[k]

\* the name a dynamic segment binds: the segment without its ':'
ParamName(seg) == IF seg = ":id" THEN "id" ELSE "org"

PathParams(pat, path) ==
    [name \in {ParamName(pat[k]) : k \in {m \in 1..Len(pat) : pat[m] \in DynamicSegments}} |->
        path[CHOOSE k \in 1..Len(pat) : pat[k] \in DynamicSegments /\ ParamName(pat[k]) = name]]

\* the number of literal segments of a pattern
Literals(pat) == Cardinality({k \in 1..Len(pat) : pat[k] \notin DynamicSegments})

\* a matcher that ranks the matching patterns by their literal segments
FindMostSpecificRoute(path) ==
    LET hits == {k \in 1..Len(routes) : Matches(routes[k].pattern, path)}
        best == {k \in hits : \A m \in hits :
                    Literals(routes[k].pattern) >= Literals(routes[m].pattern)}
    IN IF hits = {} THEN 0 ELSE CHOOSE k \in best : \A m \in best : k <= m

\* the first pattern, in registration order, that matches; 0: no match
FindMatchingRoute(path) ==
    LET hits == {k \in 1..Len(routes) : Matches(routes[k].pattern, path)}
    IN IF hits = {} THEN 0 ELSE CHOOSE k \in hits : \A m \in hits : k <= m

HasMethod(k, m) == \E j \in 1..Len(routes[k].methods) : routes[k].methods[j] = m

\* ---- Results (http-result.ts) as writeResponse puts them on the wire
NoResponse == [statusCode |-> 0, allow |-> <<>>, hasAllow |-> FALSE, body |-> "none"]
StatusResult(code) == [statusCode |-> code, allow |-> <<>>, hasAllow |-> FALSE, body |-> "none"]
notFound == StatusResult(404)
internalServerError == StatusResult(500)
methodNotAllowed(allow) ==
    [statusCode |-> 405, allow |-> allow, hasAllow |-> TRUE, body |-> "none"]
HandlerResult == [statusCode |-> 200, allow |-> <<>>, hasAllow |-> FALSE, body |-> "text"]

\* writeResponse(res, result) for a status-only or text Result: headers, then end
WriteResponse(result) ==
    /\ response' = result
    /\ headersSent' = TRUE

\* parse-body.ts: GET, HEAD and OPTIONS have no body; a JSON body may not parse
ParseBodyThrows == bodyBad /\ reqMethod # "get"

\* what a handler chain does when run: return a Result, throw, or reject
HandlerKinds == {"returns", "throws", "rejects"}

\* create-server.ts 49-54: catch (error) with the catch block left out
CatchMissing ==
    /\ escaped' = TRUE
    /\ UNCHANGED <<response, headersSent, logged>>

\* create-server.ts 49-54: catch (error)
Catch ==
    /\ logged' = TRUE
    /\ escaped' = escaped
    /\ IF ~headersSent THEN WriteResponse(internalServerError)
       ELSE UNCHANGED <<response, headersSent>>

SrvInit ==
    /\ routes \in RouteTables
    /\ reqMethod \in Methods
    /\ reqPath \in Paths
    /\ urlOk \in BOOLEAN
    /\ bodyBad \in BOOLEAN
    /\ handlerKind \in HandlerKinds
    /\ spc = "idle"
    /\ matched = 0
    /\ bodyParsed = FALSE
    /\ invoked = <<>>
    /\ response = NoResponse
    /\ headersSent = FALSE
    /\ escaped = FALSE
    /\ logged = FALSE

SrvInputs == <<routes, reqMethod, reqPath, urlOk, bodyBad, handlerKind>>

\* a 405 that lists the methods of every pattern that matches the path
AllowOfAllMatches(k) ==
    LET hits == {j \in 1..Len(routes) : Matches(routes[j].pattern, reqPath)}
    IN Flatten([j \in 1..Len(routes) |-> IF j \in hits THEN routes[j].methods ELSE <<>>])

\* create-server.ts 39: Object.keys(routes[match.pattern] || {})
AllowOf(k) == routes[k].methods

\* a dispatcher that reads the request body before it resolves the route
NotFoundAfterParsingBody ==
    /\ WriteResponse(notFound)
    /\ bodyParsed' = TRUE
    /\ UNCHANGED invoked

\* createRequestContext(req, url): the params argument left out, so its default {}
NoParams(k) == [name \in {} |-> ""]

\* create-server.ts 32, 42: params = match.params, handed to createRequestContext,
\* which returns it as request.params
RequestParams(k) == PathParams(routes[k].pattern, reqPath)

\* create-server.ts 27-29: if (!match) return writeResponse(res, notFound())
RouteNotFound ==
    /\ WriteResponse(notFound)
    /\ UNCHANGED <<bodyParsed, invoked>>

\* create-server.ts 19-40: parse the URL, resolve the route
ResolveRoute ==
    /\ UNCHANGED <<chainVars, gateVars, sseVars, reuseVars, valVars, transVars, buildVars, queryVars,
                 discVars,
                 respVars>>
    /\ spc = "idle"
    /\ UNCHANGED SrvInputs
    /\ IF ~urlOk
       THEN \* new URL(...) throws before the try block is entered
            /\ escaped' = TRUE
            /\ spc' = "done"
            /\ UNCHANGED <<matched, bodyParsed, invoked, response, headersSent, logged>>
       ELSE LET hit == FindMatchingRoute(reqPath)
            IN /\ matched' = hit
               /\ UNCHANGED <<escaped, logged>>
               /\ IF hit = 0
                  THEN RouteNotFound /\ spc' = "done"
                  ELSE IF ~HasMethod(hit, reqMethod)
                  THEN /\ WriteResponse(methodNotAllowed(AllowOf(hit)))
                       /\ spc' = "done"
                       /\ UNCHANGED <<bodyParsed, invoked>>
                  ELSE /\ spc' = "context"
                       /\ UNCHANGED <<response, headersSent, bodyParsed, invoked>>

\* create-server.ts 42: await createRequestContext(req, url, params)
CreateRequestContext ==
    /\ UNCHANGED <<chainVars, gateVars, sseVars, reuseVars, valVars, transVars, buildVars, queryVars,
                 discVars,
                 respVars>>
    /\ spc = "context"
    /\ UNCHANGED SrvInputs
    /\ UNCHANGED <<matched, invoked>>
    /\ IF ParseBodyThrows
       THEN /\ Catch
            /\ spc' = "done"
            /\ UNCHANGED bodyParsed
       ELSE /\ bodyParsed' = TRUE
            /\ spc' = "handler"
            /\ UNCHANGED <<response, headersSent, escaped, logged>>

\* create-server.ts 45-48: await handler(request); writeResponse(res, result)
RunHandler ==
    /\ UNCHANGED <<chainVars, gateVars, sseVars, reuseVars, valVars, transVars, buildVars, queryVars,
                 discVars,
                 respVars>>
    /\ spc = "handler"
    /\ UNCHANGED SrvInputs
    /\ UNCHANGED <<matched, bodyParsed>>
    /\ invoked' = Append(invoked, [pattern |-> routes[matched].pattern, method |-> reqMethod,
                                   params |-> RequestParams(matched)])
    /\ spc' = "done"
    /\ IF handlerKind = "returns"
       THEN WriteResponse(HandlerResult) /\ UNCHANGED <<escaped, logged>>
       ELSE Catch

SrvNext == ResolveRoute \/ CreateRequestContext \/ RunHandler

\* ============================================================ event stream
\* ---- messages a producer passes to write()
PlainMessage(d) == [isMsg |-> FALSE, data |-> d, event |-> "", id |-> "", retry |-> 0]
SseMessage(d, ev, i, r) == [isMsg |-> TRUE, data |-> d, event |-> ev, id |-> i, retry |-> r]
Messages == {PlainMessage(1), SseMessage(2, "tick", "", 0), SseMessage(3, "", "7", 3000)}

\* JSON.stringify(data) and `${msg.retry}`
JsonStringify(d) == CASE d = 1 -> "1" [] d = 2 -> "2" [] OTHER -> "3"
RetryText(r) == IF r = 3000 THEN "3000" ELSE "0"

Line(field, value) == <<field, value>>
OptLine(present, ln) == IF present THEN <<ln>> ELSE <<>>

\* a write that ends a block with a single newline
FrameSingleNewline(m) ==
    [bytes |-> OptLine(m.isMsg /\ m.event # "", Line("event", m.event))
               \o OptLine(m.isMsg /\ m.id # "", Line("id", m.id))
               \o OptLine(m.isMsg /\ m.retry # 0, Line("retry", RetryText(m.retry)))
               \o <<Line("data", JsonStringify(m.data))>>]

\* http-result.ts 606-617: the text of one message, lines ended by "\n", and the
\* chunk encoder.encode(output) makes of it
SseFrame(m) ==
    [bytes |-> OptLine(m.isMsg /\ m.event # "", Line("event", m.event))
               \o OptLine(m.isMsg /\ m.id # "", Line("id", m.id))
               \o OptLine(m.isMsg /\ m.retry # 0, Line("retry", RetryText(m.retry)))
               \o <<Line("data", JsonStringify(m.data)), Line("", "")>>]

\* ReadableStreamDefaultControllerCanCloseOrEnqueue
CanCloseOrEnqueue == sState = "readable" /\ ~closeRequested

\* `cleanup` holds a function once the handler has returned one
CleanupAssigned == hPhase = "returned" /\ returnsCleanup

\* cleanup?.()
CallCleanup == cleanupCalls' = cleanupCalls + (IF CleanupAssigned THEN 1 ELSE 0)

\* a TypeError raised in the producer: inside the handler it leaves start() and so
\* sse(); in a timer or promise callback nothing catches it
ProducerThrows ==
    /\ thrown' = thrown + 1
    /\ lateThrows' = lateThrows + (IF cancelled THEN 1 ELSE 0)
    /\ hPhase' = IF hPhase = "inHandler" THEN "failed" ELSE hPhase

SseInit ==
    /\ hPhase = "new"
    /\ returnsCleanup \in BOOLEAN
    /\ sState = "readable"
    /\ queue = <<>>
    /\ closeRequested = FALSE
    /\ cleanupCalls = 0
    /\ written = <<>>
    /\ delivered = <<>>
    /\ consumerDone = FALSE
    /\ cancelled = FALSE
    /\ thrown = 0
    /\ closeCalls = 0
    /\ closedBeforeCancel = FALSE
    /\ lateChunks = 0
    /\ lateThrows = 0

\* http-result.ts 602-604, 625: new ReadableStream({ start }) calls handler(write, close)
SseStart ==
    /\ UNCHANGED <<chainVars, gateVars, srvVars, reuseVars, valVars, transVars, buildVars, queryVars,
                 discVars,
                 respVars>>
    /\ hPhase = "new"
    /\ hPhase' = "inHandler"
    /\ UNCHANGED <<returnsCleanup, sState, queue, closeRequested, cleanupCalls, written,
                   delivered, consumerDone, cancelled, thrown, closeCalls,
                   closedBeforeCancel, lateChunks, lateThrows>>

\* http-result.ts 625: cleanup = handler(write, close); sse() returns the stream
HandlerReturns ==
    /\ UNCHANGED <<chainVars, gateVars, srvVars, reuseVars, valVars, transVars, buildVars, queryVars,
                 discVars,
                 respVars>>
    /\ hPhase = "inHandler"
    /\ hPhase' = "returned"
    /\ UNCHANGED <<returnsCleanup, sState, queue, closeRequested, cleanupCalls, written,
                   delivered, consumerDone, cancelled, thrown, closeCalls,
                   closedBeforeCancel, lateChunks, lateThrows>>

\* http-result.ts 606-618: write(message), in the handler or later from a callback
Write(m) ==
    /\ UNCHANGED <<chainVars, gateVars, srvVars, reuseVars, valVars, transVars, buildVars, queryVars,
                 discVars,
                 respVars>>
    /\ hPhase \in {"inHandler", "returned"}
    /\ Len(written) < MaxWrites
    /\ written' = Append(written, m)
    /\ IF CanCloseOrEnqueue
       THEN /\ queue' = Append(queue, SseFrame(m))
            /\ lateChunks' = lateChunks + (IF cancelled THEN 1 ELSE 0)
            /\ UNCHANGED <<thrown, lateThrows, hPhase>>
       ELSE /\ ProducerThrows
            /\ UNCHANGED <<queue, lateChunks>>
    /\ UNCHANGED <<returnsCleanup, sState, closeRequested, cleanupCalls, delivered,
                   consumerDone, cancelled, closeCalls, closedBeforeCancel>>

\* http-result.ts 620-623: close()
Close ==
    /\ UNCHANGED <<chainVars, gateVars, srvVars, reuseVars, valVars, transVars, buildVars, queryVars,
                 discVars,
                 respVars>>
    /\ hPhase \in {"inHandler", "returned"}
    /\ closeCalls < MaxCloses
    /\ closeCalls' = closeCalls + 1
    /\ CallCleanup
    /\ IF CanCloseOrEnqueue
       THEN /\ closeRequested' = TRUE
            /\ sState' = IF queue = <<>> THEN "closed" ELSE sState
            /\ UNCHANGED <<thrown, lateThrows, hPhase>>
       ELSE /\ ProducerThrows
            /\ UNCHANGED <<closeRequested, sState>>
    /\ closedBeforeCancel' = (closedBeforeCancel \/ ~cancelled)
    /\ UNCHANGED <<returnsCleanup, queue, written, delivered, consumerDone, cancelled,
                   lateChunks>>

\* write-response.ts 26-35: reader.read() in the transport's loop
ConsumerRead ==
    /\ UNCHANGED <<chainVars, gateVars, srvVars, reuseVars, valVars, transVars, buildVars, queryVars,
                 discVars,
                 respVars>>
    /\ hPhase = "returned"
    /\ ~consumerDone
    /\ IF queue # <<>>
       THEN /\ delivered' = Append(delivered, Head(queue))
            /\ queue' = Tail(queue)
            /\ sState' = IF closeRequested /\ Tail(queue) = <<>> THEN "closed" ELSE sState
            /\ lateChunks' = lateChunks + (IF cancelled THEN 1 ELSE 0)
            /\ UNCHANGED consumerDone
       ELSE /\ sState = "closed"
            /\ consumerDone' = TRUE
            /\ UNCHANGED <<delivered, queue, sState, lateChunks>>
    /\ UNCHANGED <<hPhase, returnsCleanup, closeRequested, cleanupCalls, written,
                   cancelled, thrown, closeCalls, closedBeforeCancel, lateThrows>>

\* http-result.ts 627-629: the consumer cancels the stream; cancel() of the source
\* runs only while the stream is still readable
ConsumerCancel ==
    /\ UNCHANGED <<chainVars, gateVars, srvVars, reuseVars, valVars, transVars, buildVars, queryVars,
                 discVars,
                 respVars>>
    /\ hPhase = "returned"
    /\ ~cancelled
    /\ cancelled' = TRUE
    /\ IF sState = "readable"
       THEN /\ sState' = "closed"
            /\ queue' = <<>>
            /\ CallCleanup
       ELSE UNCHANGED <<sState, queue, cleanupCalls>>
    /\ UNCHANGED <<hPhase, returnsCleanup, closeRequested, written, delivered,
                   consumerDone, thrown, closeCalls, closedBeforeCancel, lateChunks, lateThrows>>

SseNext ==
    \/ SseStart
    \/ HandlerReturns
    \/ \E m \in Messages : Write(m)
    \/ Close
    \/ ConsumerRead
    \/ ConsumerCancel

\* ========================================================== specifications

\* =============================================================== transport
\* writeResponse(res, result) for a body that is a ReadableStream
\* (write-response.ts 25-38). The body is the stream of sse(), or a byte stream that
\* a handler built itself and passed to stream(); a byte stream has no registered
\* cleanup, and its source may error it.

BodyKinds == {"sse", "bytes"}

\* the one message the producer writes while the transport is observed
TransportMessages == {PlainMessage(1)}

TransInit ==
    /\ tKind \in BodyKinds
    /\ tpc = "idle"
    /\ tOutcome = "none"
    /\ tFailed = "none"
    /\ resEnds = 0
    /\ wire = <<>>
    /\ disconnected = FALSE
    /\ readerLocked = FALSE

\* a catch block that lets the failure out of writeResponse
RethrowStreamFailure ==
    /\ resEnds' = resEnds
    /\ tOutcome' = "rejected"

\* write-response.ts 34-37: catch { res.end(); } return;
CatchStreamFailure ==
    /\ resEnds' = resEnds + 1
    /\ tOutcome' = "returned"

\* controller.error(e), or an exception in pull(): the source errors its byte stream
SourceErrors ==
    /\ UNCHANGED <<chainVars, gateVars, srvVars, reuseVars, valVars, buildVars, queryVars, discVars,
                 respVars>>
    /\ tKind = "bytes"
    /\ hPhase = "returned"
    /\ sState = "readable"
    /\ sState' = "errored"
    /\ queue' = <<>>
    /\ UNCHANGED <<hPhase, returnsCleanup, closeRequested, cleanupCalls, written, delivered,
                   consumerDone, cancelled, thrown, closeCalls, closedBeforeCancel,
                   lateChunks, lateThrows>>
    /\ UNCHANGED transVars

\* write-response.ts 6-26: status, headers, const reader = body.getReader()
TransportStart ==
    /\ UNCHANGED <<chainVars, gateVars, srvVars, reuseVars, valVars, buildVars, queryVars, discVars,
                 respVars>>
    /\ hPhase = "returned"
    /\ tpc = "idle"
    /\ tpc' = "loop"
    /\ readerLocked' = TRUE
    /\ UNCHANGED sseVars
    /\ UNCHANGED <<tKind, tOutcome, tFailed, resEnds, wire, disconnected>>

\* write-response.ts 28-36: one turn of the loop. reader.read() rejects on an
\* errored stream, yields the next chunk, or reports done on a closed one;
\* res.write(value) may throw; a response whose client is gone takes the chunk
\* and drops it
TransportRead ==
    /\ UNCHANGED <<chainVars, gateVars, srvVars, reuseVars, valVars, buildVars, queryVars, discVars,
                 respVars>>
    /\ tpc = "loop"
    /\ \/ /\ sState = "errored"
          /\ tFailed' = "read"
          /\ CatchStreamFailure
          /\ tpc' = "done"
          /\ UNCHANGED <<queue, sState, wire>>
       \/ /\ sState # "errored" /\ queue # <<>>
          /\ queue' = Tail(queue)
          /\ sState' = IF closeRequested /\ Tail(queue) = <<>> THEN "closed" ELSE sState
          /\ \/ /\ wire' = IF disconnected THEN wire ELSE Append(wire, Head(queue))
                /\ UNCHANGED <<tpc, tFailed, resEnds, tOutcome>>
             \/ /\ tFailed' = "write"
                /\ CatchStreamFailure
                /\ tpc' = "done"
                /\ UNCHANGED wire
       \/ /\ sState = "closed" /\ queue = <<>>
          /\ resEnds' = resEnds + 1
          /\ tOutcome' = "returned"
          /\ tpc' = "done"
          /\ UNCHANGED <<queue, sState, wire, tFailed>>
    /\ UNCHANGED <<hPhase, returnsCleanup, closeRequested, cleanupCalls, written, delivered,
                   consumerDone, cancelled, thrown, closeCalls, closedBeforeCancel,
                   lateChunks, lateThrows>>
    /\ UNCHANGED <<tKind, disconnected, readerLocked>>

\* the client closes the connection; writeResponse registers no listener for it
ClientDisconnects ==
    /\ UNCHANGED <<chainVars, gateVars, srvVars, reuseVars, valVars, buildVars, queryVars, discVars,
                 respVars>>
    /\ tpc = "loop"
    /\ ~disconnected
    /\ disconnected' = TRUE
    /\ UNCHANGED sseVars
    /\ UNCHANGED <<tKind, tpc, tOutcome, tFailed, resEnds, wire, readerLocked>>

TransNext ==
    \/ SseStart
    \/ HandlerReturns
    \/ \E m \in TransportMessages : Write(m)
    \/ Close
    \/ SourceErrors
    \/ TransportStart
    \/ TransportRead
    \/ ClientDisconnects

\* ============================================== route().before(...).handle(fn)
\* route-builder.ts handle(): the middleware of a built route is the validation
\* middleware whose next runs composeBeforeHooks(hooks), whose finalNext is the
\* route's next, the handler. It is put together from the gate and the chain.

RouteInit ==
    /\ ChainInit
    /\ mode = "compose"
    /\ GateInit
    /\ gImpl = "middleware"
    /\ \A src \in SourceNames \ {"query"} : gSchema[src] = NoSchema /\ gReq[src] = Obj(EmptyObj)
    /\ gSchema["query"] \in {NoSchema, ObjIntegerMin1}

\* validationMiddleware(ctx, (validatedCtx) => composedHooks(validatedCtx, ...))
RouteInvoke ==
    /\ gpc = "next"
    /\ Invoke

\* the Result of the hooks and the handler returns through the validation middleware
RouteReturns ==
    /\ cpc = "done"
    /\ GateNextReturns

RouteNext ==
    \/ ValidationMiddleware
    \/ RouteInvoke
    \/ StageStart
    \/ StageResume
    \/ ChainReturn
    \/ RouteReturns

\* ======================================================== createRequestContext
\* create-request-context.ts 11-24: the query object is built from the
\* (key, value) pairs of url.searchParams, in the order of the query string
QueryKeys == {"tag", "page", "toString"}
QueryValues == {"a", "b"}
QueryPairs == [key : QueryKeys, value : QueryValues]

\* JavaScript values the loop meets
Single(x) == [t |-> "string", s |-> x, items |-> <<>>]
Many(items) == [t |-> "list", s |-> "", items |-> items]
NotOwn == [t |-> "undefined", s |-> "", items |-> <<>>]
FunctionValue(name) == [t |-> "function", s |-> name, items |-> <<>>]

\* const query = {}: an object literal inherits the members of Object.prototype
\* (toString stands for them; __proto__, an accessor, is not among the inputs)
ObjectPrototype == {"toString"}

\* query[key]: the own property, else the member found along the prototype chain
Lookup(obj, key) ==
    IF obj[key] # NotOwn THEN obj[key]
    ELSE IF key \in ObjectPrototype THEN FunctionValue(key)
    ELSE NotOwn

QueryInit ==
    /\ searchParams \in SeqsUpTo(QueryPairs, MaxPairs)
    /\ qIndex = 0
    /\ query = [k \in QueryKeys |-> NotOwn]

\* one iteration of `for (const [key, value] of url.searchParams)`
Assigned(existing, value) ==
    IF existing = NotOwn THEN Single(value)
    ELSE IF existing.t = "list" THEN Many(Append(existing.items, Single(value)))
    ELSE Many(<<existing, Single(value)>>)

QueryStep ==
    /\ qIndex < Len(searchParams)
    /\ LET pair == searchParams[qIndex + 1]
       IN query' = [query EXCEPT ![pair.key] = Assigned(Lookup(query, pair.key), pair.value)]
    /\ qIndex' = qIndex + 1
    /\ UNCHANGED searchParams
    /\ UNCHANGED <<chainVars, gateVars, srvVars, sseVars, reuseVars, valVars, transVars, buildVars,
                 discVars,
                 respVars>>

QueryNext == QueryStep

\* =============================================================== discoverRoutes
\* discover-routes.ts: a routes directory, each directory with an optional
\* middleware.ts and an optional get.ts; a directory is the sequence of entry
\* names that leads to it from the routes root
Dirs == {<<>>, <<"users">>, <<"posts">>, <<"users", "$id">>}

\* what a module exports by default
NoFile == [t |-> "none", items |-> <<>>]
Fn(f) == [t |-> "fn", items |-> <<f>>]
Arr(fs) == [t |-> "array", items |-> fs]

Mw(dir, n) == [kind |-> "middleware", dir |-> dir, n |-> n]
RouteMw(dir) == [kind |-> "route middleware", dir |-> dir, n |-> 1]
HandlerOf(dir) == [kind |-> "handler", dir |-> dir, n |-> 0]

MiddlewareExports(dir) ==
    {NoFile, Fn(Mw(dir, 1))} \cup (IF dir = <<"users">> THEN {Arr(<<Mw(dir, 1), Mw(dir, 2)>>)} ELSE {})
RouteExports(dir) ==
    {Fn(HandlerOf(dir))}
        \cup (IF dir \in {<<>>, <<"posts">>} THEN {NoFile} ELSE {})
        \cup (IF dir \in {<<"users">>, <<"users", "$id">>}
              THEN {Arr(<<RouteMw(dir), HandlerOf(dir)>>)} ELSE {})

\* entry.name.startsWith('$') ? `:${entry.name.slice(1)}` : entry.name
Segment(name) == IF name = "$id" THEN ":id" ELSE name

RECURSIVE BasePath(_)
BasePath(dir) ==
    IF dir = <<>> THEN <<>>
    ELSE Append(BasePath(SubSeq(dir, 1, Len(dir) - 1)), Segment(dir[Len(dir)]))

Children(dir) == {d \in Dirs : Len(d) = Len(dir) + 1 /\ SubSeq(d, 1, Len(dir)) = dir}

\* ctx.fs.readdir(dir): the entries, in no particular order
Entries(dir) ==
    {[name |-> d[Len(d)], isDirectory |-> TRUE] : d \in Children(dir)}
        \cup (IF tree[dir].middleware # NoFile
              THEN {[name |-> "middleware.ts", isDirectory |-> FALSE]} ELSE {})
        \cup (IF tree[dir].get # NoFile
              THEN {[name |-> "get.ts", isDirectory |-> FALSE]} ELSE {})

NoRoutes == [path \in {BasePath(d) : d \in Dirs} |-> NoFile]
NotReturned == [path \in {} |-> NoFile]

DiscInit ==
    /\ tree \in [Dirs -> [middleware : UNION {MiddlewareExports(d) : d \in Dirs},
                          get : UNION {RouteExports(d) : d \in Dirs}]]
    /\ \A d \in Dirs : /\ tree[d].middleware \in MiddlewareExports(d)
                       /\ tree[d].get \in RouteExports(d)
    /\ dStack = <<>>
    /\ dHeap = <<>>
    /\ dResult = NotReturned

\* a currentMiddleware that is the parent's array itself
AliasParent(arrays, dir, parentRef) ==
    [arrays |-> [arrays EXCEPT ![parentRef] = @ \o tree[dir].middleware.items],
     currentMiddleware |-> parentRef]

\* lines 50-68: const currentMiddleware = [...parentMiddleware], then the exports
\* of the directory's middleware file are pushed onto the copy
CopyParent(arrays, dir, parentRef) ==
    [arrays |-> Append(arrays, arrays[parentRef] \o tree[dir].middleware.items),
     currentMiddleware |-> Len(arrays) + 1]

Frame(dir, ref) ==
    [dir |-> dir, currentMiddleware |-> ref, todo |-> Entries(dir), routes |-> NoRoutes]

\* discoverRoutes: discoverRoutesRecursive(context, dir, '', [])
DiscoverRoutes ==
    /\ dStack = <<>> /\ dResult = NotReturned /\ dHeap = <<>>
    /\ LET entered == CopyParent(<< <<>> >>, <<>>, 1)
       IN /\ dHeap' = entered.arrays
          /\ dStack' = <<Frame(<<>>, entered.currentMiddleware)>>
    /\ UNCHANGED <<tree, dResult>>
    /\ UNCHANGED <<chainVars, gateVars, srvVars, sseVars, reuseVars, valVars, transVars, buildVars,
                   queryVars,
                 respVars>>

Current == dStack[Len(dStack)]

\* a chain that puts the directory middleware after the route's own
HandlerFirst(current, handler) == Arr(handler.items \o current)

\* lines 97-107: [...currentMiddleware, ...handler] or [...currentMiddleware, handler];
\* the export itself when no directory middleware applies
Prepend(current, handler) ==
    IF Len(current) > 0 THEN Arr(current \o handler.items) ELSE handler

\* lines 83-109: a file entry; only get.ts (isHttpMethod) registers a route
VisitFile ==
    /\ dStack # <<>>
    /\ \E entry \in Current.todo :
        /\ ~entry.isDirectory
        /\ dStack' = [dStack EXCEPT ![Len(dStack)] =
               [@ EXCEPT !.todo = @ \ {entry},
                         !.routes = IF entry.name = "get.ts"
                                    THEN [@ EXCEPT ![BasePath(Current.dir)] =
                                            Prepend(dHeap[Current.currentMiddleware], tree[Current.dir].get)]
                                    ELSE @]]
    /\ UNCHANGED <<tree, dHeap, dResult>>
    /\ UNCHANGED <<chainVars, gateVars, srvVars, sseVars, reuseVars, valVars, transVars, buildVars,
                   queryVars,
                 respVars>>

\* lines 73-75: a directory entry: the recursive call with currentMiddleware
VisitDirectory ==
    /\ dStack # <<>>
    /\ \E entry \in Current.todo :
        /\ entry.isDirectory
        /\ LET child == Append(Current.dir, entry.name)
               entered == CopyParent(dHeap, child, Current.currentMiddleware)
           IN /\ dHeap' = entered.arrays
              /\ dStack' = Append([dStack EXCEPT ![Len(dStack)].todo = @ \ {entry}],
                                  Frame(child, entered.currentMiddleware))
    /\ UNCHANGED <<tree, dResult>>
    /\ UNCHANGED <<chainVars, gateVars, srvVars, sseVars, reuseVars, valVars, transVars, buildVars,
                   queryVars,
                 respVars>>

\* lines 77-82: Object.assign(routes[routePath], methods) for every sub route
Merge(into, subRoutes) ==
    [path \in DOMAIN into |-> IF subRoutes[path] # NoFile THEN subRoutes[path] ELSE into[path]]

\* line 112: return routes, to the parent directory's loop or to the caller
DiscReturn ==
    /\ dStack # <<>>
    /\ Current.todo = {}
    /\ IF Len(dStack) = 1
       THEN /\ dResult' = Current.routes
            /\ dStack' = <<>>
       ELSE /\ dStack' = [SubSeq(dStack, 1, Len(dStack) - 1) EXCEPT ![Len(dStack) - 1].routes =
                              Merge(@, Current.routes)]
            /\ UNCHANGED dResult
    /\ UNCHANGED <<tree, dHeap>>
    /\ UNCHANGED <<chainVars, gateVars, srvVars, sseVars, reuseVars, valVars, transVars, buildVars,
                   queryVars,
                 respVars>>

DiscNext == DiscoverRoutes \/ VisitFile \/ VisitDirectory \/ DiscReturn

\* ========================================================== request to response
\* create-server.ts 18-55 with writeResponse (write-response.ts 5-48) for every
\* kind of body, and jsonSerializer (json-serializer.ts 3-35) when the chain of the
\* route has it
Outcomes == {"no route", "method not allowed", "throws", "returns"}
BodyVariants == {"none", "string", "Buffer", "Uint8Array", "object", "ReadableStream", "Readable"}
HandlerStatuses == {200, 201}

Returned(code, body) == [StatusResult(code) EXCEPT !.body = body]
Thrown == [StatusResult(0) EXCEPT !.body = "thrown"]

\* json-serializer.ts 6-34; a Node Readable is none of ReadableStream, Uint8Array,
\* string or null, so it reaches JSON.stringify, which returns text or throws
jsonSerializer(result) ==
    IF result.body = "ReadableStream" THEN {result}
    ELSE IF result.body \in {"Uint8Array", "Buffer"} THEN {result}
    ELSE IF result.body = "string" THEN {result}
    ELSE IF result.body = "none" THEN {result}
    ELSE IF result.body = "object" THEN {[result EXCEPT !.body = "JSON text"]}
    ELSE {[result EXCEPT !.body = "JSON text"], Thrown}

\* what the handler chain hands back to the request handler
ChainResults ==
    IF rOutcome = "throws" THEN {Thrown}
    ELSE IF rSerialized THEN jsonSerializer(rReturned)
    ELSE {rReturned}

RespInit ==
    /\ rOutcome \in Outcomes
    /\ rReturned \in {Returned(code, body) : code \in HandlerStatuses, body \in BodyVariants}
    /\ rSerialized \in BOOLEAN
    /\ rOutcome # "returns" => rReturned = Returned(200, "none") /\ ~rSerialized
    /\ reqpc = "idle"
    /\ wpc = "idle"
    /\ rSource = "open"
    /\ rWritten = NoResponse
    /\ rChunks = 0
    /\ rEnds = 0
    /\ rLogged = FALSE

\* write-response.ts 6-47, up to its first await: status and headers, then the
\* branch for the body; the last branch throws, which rejects the promise that
\* writeResponse returns
writeResponse(result) ==
    /\ rWritten' = result
    /\ IF result.body = "none" THEN rEnds' = rEnds + 1 /\ wpc' = "returned"
       ELSE IF result.body \in {"Buffer", "string", "JSON text"}
       THEN rEnds' = rEnds + 1 /\ wpc' = "returned"
       ELSE IF result.body = "ReadableStream" THEN rEnds' = rEnds /\ wpc' = "loop"
       ELSE IF result.body = "Readable" THEN rEnds' = rEnds /\ wpc' = "piping"
       ELSE rEnds' = rEnds /\ wpc' = "rejected"

\* create-server.ts 49-54: catch (error)
CatchError ==
    /\ rLogged' = TRUE
    /\ IF rEnds = 0 /\ rChunks = 0 THEN writeResponse(internalServerError)
       ELSE UNCHANGED <<rWritten, rEnds, wpc>>

\* create-server.ts 18-55: the request handler. writeResponse is called without
\* await, inside try: what it throws rejects its promise and reaches no catch block
RequestHandler ==
    /\ reqpc = "idle"
    /\ reqpc' = "done"
    /\ \/ /\ rOutcome = "no route"
          /\ writeResponse(notFound)
          /\ UNCHANGED rLogged
       \/ /\ rOutcome = "method not allowed"
          /\ writeResponse(methodNotAllowed(<<"get">>))
          /\ UNCHANGED rLogged
       \/ /\ rOutcome \in {"throws", "returns"}
          /\ \E result \in ChainResults :
              IF result = Thrown THEN CatchError
              ELSE writeResponse(result) /\ UNCHANGED rLogged
    /\ UNCHANGED <<rOutcome, rReturned, rSerialized, rSource, rChunks>>
    /\ UNCHANGED <<chainVars, gateVars, srvVars, sseVars, reuseVars, valVars, transVars, buildVars,
                   queryVars, discVars>>
\* the source of a stream body ends it or fails
SourceEnds ==
    /\ wpc \in {"loop", "piping"}
    /\ rSource = "open"
    /\ rSource' \in {"ended", "errored"}
    /\ UNCHANGED <<rOutcome, rReturned, rSerialized, reqpc, wpc, rWritten, rChunks, rEnds, rLogged>>
    /\ UNCHANGED <<chainVars, gateVars, srvVars, sseVars, reuseVars, valVars, transVars, buildVars,
                   queryVars, discVars>>
\* write-response.ts 27-37: one turn of the loop over reader.read()
StreamRead ==
    /\ wpc = "loop"
    /\ \/ /\ rSource = "open" /\ rChunks < MaxWrites
          /\ rChunks' = rChunks + 1
          /\ UNCHANGED <<rEnds, wpc>>
       \/ /\ rSource = "ended"
          /\ rEnds' = rEnds + 1
          /\ wpc' = "returned"
          /\ UNCHANGED rChunks
       \/ /\ rSource = "errored"
          /\ rEnds' = rEnds + 1
          /\ wpc' = "returned"
          /\ UNCHANGED rChunks
    /\ UNCHANGED <<rOutcome, rReturned, rSerialized, reqpc, rSource, rWritten, rLogged>>
    /\ UNCHANGED <<chainVars, gateVars, srvVars, sseVars, reuseVars, valVars, transVars, buildVars,
                   queryVars, discVars>>
\* write-response.ts 42: body.pipe(res). pipe ends the response when the source
\* ends; when the source fails it unpipes and leaves the response open
Pipe ==
    /\ wpc = "piping"
    /\ \/ /\ rSource = "open" /\ rChunks < MaxWrites
          /\ rChunks' = rChunks + 1
          /\ UNCHANGED <<rEnds, wpc>>
       \/ /\ rSource = "ended"
          /\ rEnds' = rEnds + 1
          /\ wpc' = "returned"
          /\ UNCHANGED rChunks
       \/ /\ rSource = "errored"
          /\ wpc' = "unpiped"
          /\ UNCHANGED <<rEnds, rChunks>>
    /\ UNCHANGED <<rOutcome, rReturned, rSerialized, reqpc, rSource, rWritten, rLogged>>
    /\ UNCHANGED <<chainVars, gateVars, srvVars, sseVars, reuseVars, valVars, transVars, buildVars,
                   queryVars, discVars>>
RespNext == RequestHandler \/ SourceEnds \/ StreamRead \/ Pipe

\* ================================================================ RouteBuilder
\* route-builder.ts: a builder is an object whose config holds a schemas object
\* and a reference to a hooks array; `heap` holds the hook arrays so that two
\* builders holding the same array are visible as such
SchemaFields == {"params", "query", "headers", "body", "response"}
NoSchemas == [f \in SchemaFields |-> "none"]
HookBatches == {<<"auth">>, <<"auth", "rate">>}

\* constructor: config.schemas ?? {}, config.hooks ?? []
NewBuilder(schemas, hooksRef, parent) ==
    [schemas |-> schemas, hooks |-> hooksRef, from |-> parent]

\* route(): new RouteBuilder() with an empty schemas object and a fresh empty array
BuildInit ==
    /\ heap = << <<>> >>
    /\ builders = <<NewBuilder(NoSchemas, 1, 0)>>

HooksOf(b) == heap[builders[b].hooks]
ConfigOf(b) == [schemas |-> builders[b].schemas, hooks |-> HooksOf(b)]

\* { schemas: { ...this.config.schemas, field: schema }, hooks: this.config.hooks }
WithSchema(b, field) ==
    /\ builders' = Append(builders,
           NewBuilder([builders[b].schemas EXCEPT ![field] = "set"], builders[b].hooks, b))
    /\ heap' = heap

\* a before() that pushes onto the array it was given
PushHooks(b, added) ==
    /\ heap' = [heap EXCEPT ![builders[b].hooks] = @ \o added]
    /\ builders' = Append(builders, NewBuilder(builders[b].schemas, builders[b].hooks, b))

\* { schemas: this.config.schemas, hooks: [...this.config.hooks, ...hooks] }
SpreadHooks(b, added) ==
    /\ heap' = Append(heap, HooksOf(b) \o added)
    /\ builders' = Append(builders, NewBuilder(builders[b].schemas, Len(heap) + 1, b))

\* params(), query(), headers(), body(), response()
SchemaMethod ==
    /\ Len(builders) < MaxBuilders
    /\ \E b \in 1..Len(builders), f \in SchemaFields : WithSchema(b, f)
    /\ UNCHANGED <<chainVars, gateVars, srvVars, sseVars, reuseVars, valVars, transVars, queryVars,
                 discVars,
                 respVars>>

\* before(hooks)
Before ==
    /\ Len(builders) < MaxBuilders
    /\ \E b \in 1..Len(builders), added \in HookBatches : SpreadHooks(b, added)
    /\ UNCHANGED <<chainVars, gateVars, srvVars, sseVars, reuseVars, valVars, transVars, queryVars,
                 discVars,
                 respVars>>

BuildNext == SchemaMethod \/ Before


BuildIdle ==
    /\ heap = <<>>
    /\ builders = <<>>

QueryIdle ==
    /\ searchParams = <<>> /\ qIndex = 0
    /\ query = [k \in {} |-> 0]

DiscIdle ==
    /\ tree = <<>> /\ dStack = <<>> /\ dHeap = <<>>
    /\ dResult = <<>>

RespIdle ==
    /\ rOutcome = "none" /\ rReturned = NoResponse /\ rSerialized = FALSE
    /\ reqpc = "idle" /\ wpc = "idle" /\ rSource = "open" /\ rWritten = NoResponse
    /\ rChunks = 0 /\ rEnds = 0 /\ rLogged = FALSE

ChainIdle ==
    /\ mode = "compose" /\ hooks = <<>> /\ index = 0 /\ stack = <<>>
    /\ calls = <<>> /\ nexts = <<>> /\ ret = NoResult /\ cpc = "idle"

GateIdle ==
    /\ gImpl = "middleware" /\ gSchema = [src \in SourceNames |-> NoSchema]
    /\ gKeyed = FALSE /\ gReq = [src \in SourceNames |-> Obj(EmptyObj)]
    /\ gCtype = NoHeader /\ gpc = "idle" /\ gResult = NoGateResult
    /\ gNextCalls = 0 /\ gNextCtx = gReq /\ gRan = <<>> /\ gBodyKey = ""
    /\ gThrew = FALSE
    /\ gCtxAfter = gReq

SseIdle ==
    /\ hPhase = "new" /\ returnsCleanup = FALSE /\ sState = "readable" /\ queue = <<>>
    /\ closeRequested = FALSE /\ cleanupCalls = 0 /\ written = <<>> /\ delivered = <<>>
    /\ consumerDone = FALSE /\ cancelled = FALSE /\ thrown = 0 /\ closeCalls = 0
    /\ closedBeforeCancel = FALSE /\ lateChunks = 0 /\ lateThrows = 0

SrvIdle ==
    /\ routes = <<>> /\ reqMethod = "get" /\ reqPath = <<"other">> /\ urlOk = TRUE
    /\ bodyBad = FALSE /\ handlerKind = "returns" /\ spc = "idle" /\ matched = 0
    /\ bodyParsed = FALSE /\ invoked = <<>> /\ response = NoResponse
    /\ headersSent = FALSE /\ escaped = FALSE /\ logged = FALSE

ReuseIdle ==
    /\ rMode = "compose" /\ rLen = 0 /\ cell = [r \in Requests |-> 0]
    /\ rStack = [r \in Requests |-> <<>>] /\ rCalls = [r \in Requests |-> <<>>]
    /\ rRet = [r \in Requests |-> NoResult] /\ rpc = [r \in Requests |-> "idle"]
    /\ overlap = FALSE

ValIdle ==
    /\ vpc = "new" /\ vCompiled = <<>> /\ running = 0
    /\ vIn = [r \in Requests |-> [src \in SourceNames |-> Obj(EmptyObj)]]
    /\ vData = vIn /\ vK = [r \in Requests |-> 0]
    /\ vPhase = [r \in Requests |-> "idle"] /\ vCell = NoErrors
    /\ vErrs = [r \in Requests |-> <<>>] /\ vRes = [r \in Requests |-> NoGateResult]
    /\ vStat = [r \in Requests |-> "idle"]

TransIdle ==
    /\ tKind = "sse" /\ tpc = "idle" /\ tOutcome = "none" /\ tFailed = "none"
    /\ resEnds = 0 /\ wire = <<>> /\ disconnected = FALSE /\ readerLocked = FALSE

InitChain == ChainInit /\ GateIdle /\ SrvIdle /\ SseIdle /\ ReuseIdle /\ ValIdle /\ TransIdle /\ BuildIdle /\ QueryIdle /\ DiscIdle /\ RespIdle
InitGate == GateInit /\ ChainIdle /\ SrvIdle /\ SseIdle /\ ReuseIdle /\ ValIdle /\ TransIdle /\ BuildIdle /\ QueryIdle /\ DiscIdle /\ RespIdle
InitGateOptions == GateOptionsInit /\ ChainIdle /\ SrvIdle /\ SseIdle /\ ReuseIdle /\ ValIdle /\ TransIdle /\ BuildIdle /\ QueryIdle /\ DiscIdle /\ RespIdle
InitServer == SrvInit /\ ChainIdle /\ GateIdle /\ SseIdle /\ ReuseIdle /\ ValIdle /\ TransIdle /\ BuildIdle /\ QueryIdle /\ DiscIdle /\ RespIdle
InitSse == SseInit /\ ChainIdle /\ GateIdle /\ SrvIdle /\ ReuseIdle /\ ValIdle /\ TransIdle /\ BuildIdle /\ QueryIdle /\ DiscIdle /\ RespIdle
InitReuse == ReuseInit /\ ChainIdle /\ GateIdle /\ SrvIdle /\ SseIdle /\ ValIdle /\ TransIdle /\ BuildIdle /\ QueryIdle /\ DiscIdle /\ RespIdle

SpecChain == InitChain /\ [][ChainNext]_vars

SpecGate == InitGate /\ [][GateNext]_vars
SpecGateOptions == InitGateOptions /\ [][GateNext]_vars

SpecServer == InitServer /\ [][SrvNext]_vars

SpecSse == InitSse /\ [][SseNext]_vars

SpecReuse == InitReuse /\ [][ReuseNext]_vars

InitValidators == ValInit /\ ChainIdle /\ SrvIdle /\ SseIdle /\ ReuseIdle /\ TransIdle /\ BuildIdle /\ QueryIdle /\ DiscIdle /\ RespIdle
SpecValidators == InitValidators /\ [][ValNext]_vars

InitBuilder ==
    /\ BuildInit
    /\ ChainIdle /\ GateIdle /\ SrvIdle /\ SseIdle /\ ReuseIdle /\ ValIdle /\ TransIdle /\ QueryIdle /\ DiscIdle /\ RespIdle
SpecBuilder == InitBuilder /\ [][BuildNext]_vars

InitQuery ==
    /\ QueryInit
    /\ ChainIdle /\ GateIdle /\ SrvIdle /\ SseIdle /\ ReuseIdle /\ ValIdle /\ TransIdle /\ BuildIdle /\ DiscIdle /\ RespIdle
SpecQuery == InitQuery /\ [][QueryNext]_vars

InitDiscover ==
    /\ DiscInit
    /\ ChainIdle /\ GateIdle /\ SrvIdle /\ SseIdle /\ ReuseIdle /\ ValIdle /\ TransIdle /\ BuildIdle
    /\ QueryIdle /\ RespIdle
SpecDiscover == InitDiscover /\ [][DiscNext]_vars

InitRespond ==
    /\ RespInit
    /\ ChainIdle /\ GateIdle /\ SrvIdle /\ SseIdle /\ ReuseIdle /\ ValIdle /\ TransIdle /\ BuildIdle
    /\ QueryIdle /\ DiscIdle
SpecRespond == InitRespond /\ [][RespNext]_vars

InitRoute == RouteInit /\ SrvIdle /\ SseIdle /\ ReuseIdle /\ ValIdle /\ TransIdle /\ BuildIdle /\ QueryIdle /\ DiscIdle /\ RespIdle
SpecRoute == InitRoute /\ [][RouteNext]_vars

\* the transport is fair to its own loop: a read that can complete does complete;
\* nothing obliges a producer to write or to close
InitTransport ==
    /\ SseInit /\ TransInit /\ (tKind = "bytes" => ~returnsCleanup)
    /\ ChainIdle /\ GateIdle /\ SrvIdle /\ ReuseIdle /\ ValIdle /\ BuildIdle /\ QueryIdle /\ DiscIdle /\ RespIdle
SpecTransport ==
    InitTransport /\ [][TransNext]_vars /\ WF_vars(TransportStart) /\ WF_vars(TransportRead)

\* ------------------------------------------------------------ chain claims
Invoked(i) == \E k \in 1..Len(calls) : calls[k].who = i
CallsNextOnce(j) == hooks[j] \in {"pass", "wrap"}
ReturnsNextUnchanged(j) == hooks[j] = "pass"

C2_DeclarationOrder ==
    (\A j \in 1..Len(hooks) : CallsNextOnce(j)) =>
        /\ Len(calls) <= Len(hooks) + 1
        /\ \A k \in 1..Len(calls) : calls[k].who = (IF k <= Len(hooks) THEN k ELSE 0)
        /\ \A k \in 2..Len(calls) :
              /\ k - 1 <= Len(nexts)
              /\ nexts[k - 1].who = k - 1
              /\ calls[k].ctx = nexts[k - 1].ctx
        /\ cpc = "done" => /\ Len(calls) = Len(hooks) + 1
                           /\ ret.from = 0
                           /\ Len(hooks) > 0 => ret.ctx = nexts[Len(hooks)].ctx

C2_Witness ==
    /\ cpc = "done"
    /\ mode = "compose"
    /\ hooks = <<"pass", "wrap", "pass">>
    /\ Len(calls) = 4
    /\ calls[4] = [who |-> 0, ctx |-> {1, 3}]



\* what the one stage, called directly with (ctx, finalNext), calls and returns
DirectCalls(kind) ==
    CASE kind = "short" -> <<[who |-> 1, ctx |-> {}]>>
      [] kind = "wrap" -> <<[who |-> 1, ctx |-> {}], [who |-> 0, ctx |-> {}]>>
      [] kind = "pass" -> <<[who |-> 1, ctx |-> {}], [who |-> 0, ctx |-> {1}]>>
      [] OTHER -> <<[who |-> 1, ctx |-> {}], [who |-> 0, ctx |-> {1}], [who |-> 0, ctx |-> {1}]>>

DirectResult(kind) ==
    CASE kind = "short" -> StageResult(1, {})
      [] kind = "wrap" -> Serialized(1, FinalResult({}))
      [] OTHER -> FinalResult({1})

\* C24: a chain of zero stages invokes finalNext exactly once with ctx and returns
\* its Result; a chain of one stage does what that stage does when it is called
\* with (ctx, finalNext).
C24_ZeroAndOneStage ==
    cpc = "done" =>
        /\ Len(hooks) = 0 => (calls = <<[who |-> 0, ctx |-> {}]>> /\ ret = FinalResult({}))
        /\ Len(hooks) = 1 => (calls = DirectCalls(hooks[1]) /\ ret = DirectResult(hooks[1]))

\* the stage the continuation of stage i is bound to (0: finalNext)
BoundTo(i) == IF i = Len(hooks) THEN 0 ELSE i + 1

\* C36: every invocation of the next given to stage i, the first and any later one
\* within the request, starts stage i+1 (finalNext after the last stage) with the
\* context it was given.
C36_NextBoundToFollowingStage ==
    [][nexts' # nexts =>
        LET inv == nexts'[Len(nexts')]
        IN calls' = Append(calls, [who |-> BoundTo(inv.who), ctx |-> inv.ctx])]_vars

\* ----------------------------------------------------- reused chain claims
\* the calls request r must have made after k of them: stage 1 .. stage rLen, then
\* finalNext, each with the context of r enriched by the stages before it
ExpectedCall(r, k) ==
    [who |-> IF k <= rLen THEN k ELSE 0, ctx |-> RStageCtx(r, k - 1)]

\* C11: when one composed chain is run by several requests, in sequence or
\* interleaved at the suspension points of the stages and the handler, every
\* request runs each stage once, in declaration order, with its own context, and
\* reaches its own finalNext: no stage is skipped or repeated.
C11_DispatchPerInvocation ==
    \A r \in Requests :
        /\ Len(rCalls[r]) <= rLen + 1
        /\ \A k \in 1..Len(rCalls[r]) : rCalls[r][k] = ExpectedCall(r, k)
        /\ rpc[r] = "done" => /\ Len(rCalls[r]) = rLen + 1
                              /\ rRet[r] = FinalResult(RStageCtx(r, rLen))

C11_Witness ==
    /\ overlap
    /\ rLen = 3
    /\ rMode = "compose"
    /\ \A r \in Requests : rpc[r] = "done" /\ Len(rCalls[r]) = 4
    /\ rRet[1] = FinalResult({-1, 1, 2, 3})
    /\ rRet[2] = FinalResult({-2, 1, 2, 3})

\* ------------------------------------------------------------- gate claims
SupportedSet == {SupportedTypes[k] : k \in 1..Len(SupportedTypes)}

\* the declared source src does not satisfy its schema on this request
DeclaredFails(src) ==
    /\ gSchema[src].declared
    /\ IF gImpl = "middleware" THEN AjvErrors(gSchema[src], gReq[src]) # <<>>
       ELSE IF src = "body" /\ gKeyed
       THEN \/ gCtype = NoHeader
            \/ Normalize(gCtype) \notin SupportedSet
            \/ AjvErrors(BodyByContentType(Normalize(gCtype)), OrEmpty(gReq[src])) # <<>>
       ELSE AjvErrors(gSchema[src], OrEmpty(gReq[src])) # <<>>

FailingSources == {src \in SourceNames : DeclaredFails(src)}

\* the sources the 400 body reports
ReportedSources ==
    IF gImpl = "middleware"
    THEN {gResult.body.errors[k].field[1] : k \in 1..Len(gResult.body.errors)}
    ELSE {gResult.body.details[k].field : k \in 1..Len(gResult.body.details)}

ReportedOrder ==
    IF gImpl = "middleware"
    THEN [k \in 1..Len(gResult.body.errors) |-> gResult.body.errors[k].field[1]]
    ELSE [k \in 1..Len(gResult.body.details) |-> gResult.body.details[k].field]

\* the position of a source in the order params, query, headers, body
ClaimedRank(src) ==
    CASE src = "params" -> 1 [] src = "query" -> 2 [] src = "headers" -> 3 [] OTHER -> 4

\* the position of a source among the schema properties as the gate declares them:
\* createValidationMiddleware(schema: { params, query, headers, body }) and
\* HandleConfig { params, query, body, headers }
DeclaredRank(src) ==
    IF gImpl = "middleware" THEN ClaimedRank(src)
    ELSE CASE src = "params" -> 1 [] src = "query" -> 2 [] src = "body" -> 3 [] OTHER -> 4

\* C15 as stated: in the 400 response the errors of the failing sources appear in
\* the order params, query, headers, body, whichever sources fail.
C15_ParamsQueryHeadersBody ==
    gResult.statusCode = 400 =>
        \A a, b \in 1..Len(ReportedOrder) :
            a < b => ClaimedRank(ReportedOrder[a]) <= ClaimedRank(ReportedOrder[b])

\* C15 amended: in the 400 response the errors of the failing sources appear in the
\* order in which the gate declares its schemas: params, query, headers, body for
\* createValidationMiddleware and params, query, body, headers for handle().
C15_DeclaredOrder ==
    gResult.statusCode = 400 =>
        /\ \A a, b \in 1..Len(ReportedOrder) :
              a < b => DeclaredRank(ReportedOrder[a]) <= DeclaredRank(ReportedOrder[b])
        /\ {ReportedOrder[k] : k \in 1..Len(ReportedOrder)} = FailingSources

C15_Witness ==
    /\ gpc = "done"
    /\ gImpl = "middleware"
    /\ gResult.statusCode = 400
    /\ ReportedOrder = <<"params", "query", "headers", "body">>

\* the 400 body of a failed validation as documented
IsErrorEntry(x) == DOMAIN x = {"path", "message", "keyword"}

IsDetail(d) ==
    /\ DOMAIN d = {"field", "errors"}
    /\ d.field \in SourceNames
    /\ Len(d.errors) >= 1
    /\ \A k \in 1..Len(d.errors) : IsErrorEntry(d.errors[k])

\* C16: the body of every validation 400 is { error: "Validation Failed", details }
\* with one detail { field, errors: [{ path, message, keyword }] } per failing
\* source, each with at least one error.
C16_ValidationFailedShape ==
    gResult.statusCode = 400 =>
        /\ DOMAIN gResult.body = {"error", "details"}
        /\ gResult.body.error = "Validation Failed"
        /\ Len(gResult.body.details) = Cardinality(FailingSources)
        /\ \A k \in 1..Len(gResult.body.details) : IsDetail(gResult.body.details[k])
        /\ {gResult.body.details[k].field : k \in 1..Len(gResult.body.details)} = FailingSources

\* the errors the 400 body holds for the query, with the source they are filed under
QueryErrors ==
    IF gImpl = "middleware"
    THEN SelectSeq(gResult.body.errors, LAMBDA x : x.field[1] = "query")
    ELSE Flatten([k \in 1..Len(gResult.body.details) |->
             IF gResult.body.details[k].field = "query"
             THEN gResult.body.details[k].errors ELSE <<>>])

\* C17: a query field declared integer with minimum 1 that receives the string "0"
\* is coerced to 0 and then fails the bound: the 400 holds exactly one error for it,
\* filed under query, whose keyword is "minimum".
C17_CoercionBeforeBounds ==
    (gpc # "idle" /\ gSchema["query"] = ObjIntegerMin1 /\ gReq["query"] = ObjV(Str("0"))) =>
        /\ gResult.statusCode = 400
        /\ "query" \in ReportedSources
        /\ Len(QueryErrors) = 1
        /\ "keyword" \in DOMAIN QueryErrors[1]
        /\ QueryErrors[1].keyword = "minimum"

\* the media type a Content-Type header names: its text before the first ';',
\* without surrounding spaces, letter case set aside
MediaType(h) ==
    CASE h \in {"application/json", "Application/JSON; charset=utf-8"} -> "application/json"
      [] h = " text/plain ;q=1" -> "text/plain"
      [] h = "text/html" -> "text/html"
      [] h = "Text/Markdown" -> "text/markdown"
      [] OTHER -> ""

\* a header names the declared key up to letter case, surrounding spaces and
\* ';'-parameters
NamesKey(h, key) == h # NoHeader /\ MediaType(h) = LowerCase(key)

BodyReported == gResult.statusCode = 400 /\ "body" \in ReportedSources

SelectsSubSchema(key) ==
    /\ gBodyKey = key
    /\ \E k \in 1..Len(gRan) : gRan[k] = "body"
    /\ BodyReported <=> (AjvErrors(BodyByContentType(key), OrEmpty(gReq["body"])) # <<>>)

\* C18 as stated: a Content-Type header that names a declared key up to letter
\* case, surrounding spaces and ';'-parameters selects the sub-schema of that key,
\* and the body is validated against that sub-schema only.
C18_HeaderSelectsAnyKey ==
    (gpc # "idle" /\ gKeyed) =>
        \A key \in SupportedSet : NamesKey(gCtype, key) => SelectsSubSchema(key)

\* C18 amended: the header, lowercased and cut at the first ';', is looked up among
\* the keys as they were declared: a header that names a key declared in lower case
\* selects the sub-schema of that key, and the body is validated against that
\* sub-schema only.
C18_HeaderSelectsLowerCaseKey ==
    (gpc # "idle" /\ gKeyed) =>
        \A key \in SupportedSet :
            (NamesKey(gCtype, key) /\ LowerCase(key) = key) => SelectsSubSchema(key)

C18_Witness ==
    /\ gpc = "done"
    /\ gKeyed
    /\ gCtype = "Application/JSON; charset=utf-8"
    /\ gBodyKey = "application/json"
    /\ gSchema["body"] = ObjIntegerMin1
    /\ gReq["body"] = ObjV(Str("0"))
    /\ BodyReported

BodyDetails ==
    SelectSeq(gResult.body.details, LAMBDA d : d.field = "body")

SchemaApplied(src) ==
    IF gImpl = "handle" /\ src = "body" /\ gKeyed THEN BodyByContentType(Normalize(gCtype))
    ELSE gSchema[src]

\* the value of a source after coercion to its schema
CoercedValue(sch, val) ==
    IF sch.root THEN Coerce(sch, val)
    ELSE IF val.t = "obj" /\ "v" \in DOMAIN val.o THEN ObjV(Coerce(sch, val.o["v"]))
    ELSE val

\* C20: when validation succeeds, the context next receives holds, for every
\* source with a schema, the value coerced to that schema.
C20_NextSeesCoercedValues ==
    gNextCalls = 1 =>
        \A src \in SourceNames :
            gSchema[src].declared => gNextCtx[src] = CoercedValue(SchemaApplied(src), gReq[src])

MissingWithDefault(src) ==
    /\ SchemaApplied(src).declared /\ SchemaApplied(src).hasDefault
    /\ gReq[src].t = "obj" /\ "v" \notin DOMAIN gReq[src].o

\* C22: for a route with a schema (handle() or route()), a missing optional field
\* whose schema declares a default holds that default in what the handler receives.
C22_DefaultsFilled ==
    gNextCalls = 1 =>
        \A src \in SourceNames :
            MissingWithDefault(src) =>
                /\ gNextCtx[src].t = "obj"
                /\ "v" \in DOMAIN gNextCtx[src].o
                /\ gNextCtx[src].o["v"] = DefaultValue

\* a source whose object holds an undeclared property under additionalProperties: false
HasAdditional(src) ==
    /\ SchemaApplied(src).declared /\ SchemaApplied(src).strict
    /\ gReq[src].t = "obj" /\ Additional(gReq[src].o) # {}

\* the 400 body holds an additionalProperties error for the source
AdditionalReported(src) ==
    /\ gResult.statusCode = 400
    /\ IF gImpl = "middleware"
       THEN \E k \in 1..Len(gResult.body.errors) :
                /\ gResult.body.errors[k].field[1] = src
                /\ gResult.body.errors[k].message = "must NOT have additional properties"
       ELSE \E k \in 1..Len(gResult.body.details) :
                /\ gResult.body.details[k].field = src
                /\ \E j \in 1..Len(gResult.body.details[k].errors) :
                       gResult.body.details[k].errors[j].keyword = "additionalProperties"

\* C23: for a route with an object schema whose additional-properties policy is
\* strip (handle() or route()), undeclared properties cause no validation error and
\* are absent from the value the handler receives.
C23_AdditionalStripped ==
    gpc # "idle" =>
        \A src \in SourceNames :
            HasAdditional(src) =>
                /\ ~AdditionalReported(src)
                /\ gNextCalls = 1 => Additional(gNextCtx[src].o) = {}

\* C37 as claimed: the caller's params, query, headers and body are unchanged after
\* the gate returns, on success and on 400.
C37_ContextUntouched ==
    gpc # "idle" => gCtxAfter = gReq

\* a source with a field that its schema coerces to another value
Coerces(src) ==
    /\ src \in {gRan[k] : k \in 1..Len(gRan)}
    /\ ~SchemaApplied(src).root
    /\ gReq[src].t = "obj" /\ "v" \in DOMAIN gReq[src].o
    /\ CanCoerce(SchemaApplied(src), gReq[src].o["v"])
    /\ Coerce(SchemaApplied(src), gReq[src].o["v"]) # gReq[src].o["v"]

\* C37: the gate rewrites the context it is given: after it returns, on success and
\* on 400, every coerced field holds the coerced value in the caller's context, and
\* the context next receives is that same context.
C37_ContextRewrittenInPlace ==
    gpc # "idle" =>
        /\ \A src \in SourceNames :
               Coerces(src) =>
                   gCtxAfter[src].o["v"] = Coerce(SchemaApplied(src), gReq[src].o["v"])
        /\ gNextCalls = 1 => gNextCtx = gCtxAfter

C37_Witness ==
    /\ gpc = "done" /\ gResult.statusCode = 400
    /\ \E src \in SourceNames : Coerces(src)

\* ------------------------------------------------------------ route claims

\* hook i has started before position k of the calls
StartedBefore(i, k) == \E m \in 1..(k - 1) : calls[m].who = i

\* C35: the middleware of route()...handle() validates first, then runs the
\* before-hooks in the order they were added, then the handler; after a failed
\* validation no hook and no handler runs, after a hook that returns early no
\* later hook and no handler runs.
C35_Lifecycle ==
    /\ calls # <<>> => (gpc # "idle" /\ gNextCalls = 1)
    /\ gResult.statusCode = 400 => calls = <<>>
    /\ \A k \in 1..Len(calls) :
          LET i == calls[k].who
          IN /\ \A j \in 1..Len(hooks) : (i = 0 \/ j < i) => StartedBefore(j, k)
             /\ (i > 0 /\ hooks[i] = "short") =>
                   \A m \in 1..Len(calls) : calls[m].who # 0 /\ calls[m].who <= i

\* ------------------------------------------------------------- query claims
\* the values of `key` among the first n pairs, in the order of the query string
RECURSIVE ValuesOf(_, _)
ValuesOf(key, n) ==
    IF n = 0 THEN <<>>
    ELSE IF searchParams[n].key = key
         THEN Append(ValuesOf(key, n - 1), Single(searchParams[n].value))
         ELSE ValuesOf(key, n - 1)

\* C31: a query key maps to a list exactly when the key occurs more than once;
\* a key that occurs once maps to a single string; a list holds every value of
\* the key in the order of the query string
C31_ListIffRepeated ==
    \A k \in DOMAIN query :
        LET vs == ValuesOf(k, qIndex)
        IN /\ query[k].t = "list" <=> Len(vs) > 1
           /\ Len(vs) = 1 => query[k] = vs[1]
           /\ query[k].t = "list" => query[k].items = vs

\* --------------------------------------------------------- discovery claims
WithRoute == {d \in Dirs : tree[d].get # NoFile}
IsPrefix(a, d) == Len(a) <= Len(d) /\ SubSeq(d, 1, Len(a)) = a

\* the middleware of every directory from the root down to dir, in export order
RECURSIVE DirectoryMiddleware(_)
DirectoryMiddleware(dir) ==
    IF dir = <<>> THEN tree[dir].middleware.items
    ELSE DirectoryMiddleware(SubSeq(dir, 1, Len(dir) - 1)) \o tree[dir].middleware.items

Has(chain, f) == \E i \in 1..Len(chain) : chain[i] = f
Discovered == dResult # NotReturned

\* C32: the chain registered for a route is the middleware of its ancestor
\* directories from the root downwards, then its own directory's, then the
\* route file's own middleware, then the handler, each in export order
C32_ChainOrder ==
    Discovered =>
        \A d \in Dirs :
            IF d \in WithRoute
            THEN dResult[BasePath(d)].items = DirectoryMiddleware(d) \o tree[d].get.items
            ELSE dResult[BasePath(d)] = NoFile

\* a route two directories deep under directory middleware, with its own middleware
C32_Witness ==
    /\ Discovered
    /\ tree[<<>>].middleware # NoFile
    /\ tree[<<"users">>].middleware.t = "array"
    /\ tree[<<"users", "$id">>].get.t = "array"
    /\ Len(dResult[<<"users", ":id">>].items) = 5

\* C33: the middleware of a directory is in the chain of a route only if the
\* route is in that directory or below it
C33_NoSiblingMiddleware ==
    Discovered =>
        \A d, m \in Dirs :
            (\E n \in 1..2 : Has(dResult[BasePath(d)].items, Mw(m, n))) => IsPrefix(m, d)

\* users/ has middleware and a nested directory, posts/ and the root have routes
C33_Witness ==
    /\ Discovered
    /\ tree[<<"users">>].middleware # NoFile
    /\ tree[<<"users", "$id">>].middleware # NoFile
    /\ Has(dResult[<<"users">>].items, Mw(<<"users">>, 1))
    /\ dResult[<<"posts">>] = Fn(HandlerOf(<<"posts">>))
    /\ dResult[<<>>] = Fn(HandlerOf(<<>>))

\* ---------------------------------------------------------- response claims
\* nothing is left to run for the request: the request handler has returned and
\* writeResponse has settled, or its pipe has been torn down
Settled == reqpc = "done" /\ wpc \in {"returned", "rejected", "unpiped"}

\* C38: the response of every request is ended, and ended exactly once, whatever
\* the outcome: it is never ended twice, and once nothing is left to run for the
\* request it has been ended
C38_EndedExactlyOnce ==
    /\ rEnds <= 1
    /\ Settled => rEnds = 1

\* C39: a Result that went through jsonSerializer is written by writeResponse with
\* the status code of the handler, writeResponse does not fail on its body, and
\* a stream body is handed to writeResponse as the stream it was
C39_SerializedIsWritable ==
    (reqpc = "done" /\ rOutcome = "returns" /\ rSerialized) =>
        /\ rWritten.statusCode = rReturned.statusCode
        /\ wpc # "rejected"
        /\ rReturned.body \in {"ReadableStream", "Readable"} => rWritten.body = rReturned.body

\* ----------------------------------------------------------- builder claims
\* C34: every builder method returns a new builder, and the builders that
\* existed before the call keep their schemas and their hooks
C34_BuildersImmutable ==
    [][/\ Len(builders') = Len(builders) + 1
       /\ \A k \in 1..Len(builders) : ConfigOf(k)' = ConfigOf(k)]_vars

\* two routes derived from one base with different hooks, and a third with a schema
C34_Witness ==
    \E p, a, b, c \in 1..Len(builders) :
        /\ a # b /\ builders[a].from = p /\ builders[b].from = p /\ builders[c].from = p
        /\ HooksOf(a) # HooksOf(b) /\ HooksOf(a) # HooksOf(p) /\ HooksOf(b) # HooksOf(p)
        /\ builders[c].schemas # builders[p].schemas

\* -------------------------------------------------- one gate, many requests

\* C28: schemas are compiled only when the route is constructed: once the gate is
\* built, serving requests compiles nothing, and the validators in use are the ones
\* compiled at construction.
C28_CompiledAtConstructionOnly ==
    [][vpc = "built" => (vCompiled' = vCompiled /\ vCompiled' = CompiledAtConstruction)]_vars

C28_Witness ==
    /\ \A r \in Requests : vStat[r] = "done"
    /\ Len(vCompiled) = 2

\* what a gate compiled from the same schemas pushes for the given request data
ErrorsOf(data) ==
    Flatten([k \in 1..4 |->
        LET src == GateOrder[k]
            errs == AjvErrors(gSchema[src], ValidatorInput(data[src]))
        IN IF gSchema[src].declared /\ errs # <<>> THEN Pushed(src, errs) ELSE <<>>])

ValidatedRequests == {r \in Requests : vStat[r] \in {"next", "done"}}

C30_RequestsIndependent ==
    \A r \in ValidatedRequests :
        IF ErrorsOf(vIn[r]) # <<>>
        THEN vStat[r] = "done" /\ vRes[r] = GateBadRequest(ErrorsOf(vIn[r]))
        ELSE vRes[r].statusCode # 400

C30_Witness ==
    /\ vStat[1] = "next"
    /\ vStat[2] = "done" /\ vRes[2].statusCode = 400
    /\ vCell # NoErrors

\* ------------------------------------------------------- dispatcher claims
\* the request reached the try block with a route and a handler chain for its method
Dispatched == urlOk /\ FindMatchingRoute(reqPath) # 0
                    /\ HasMethod(FindMatchingRoute(reqPath), reqMethod)

\* C5: a failure thrown or rejected by a hook or the handler, or raised while the
\* request context is built, is answered with a status-only 500 without a body, and
\* does not escape the request handler.
C5_FailureBecomes500 ==
    (spc = "done" /\ Dispatched /\ (ParseBodyThrows \/ handlerKind \in {"throws", "rejects"}))
        => /\ response = internalServerError
           /\ response.body = "none"
           /\ ~escaped

C5_Witness ==
    /\ spc = "done"
    /\ handlerKind = "rejects"
    /\ ~ParseBodyThrows
    /\ Len(invoked) = 1
    /\ response.statusCode = 500

\* C6: when no registered pattern matches the request path the answer is 404, no
\* handler chain is invoked and the body is not parsed, whatever the method.
C6_NoMatchIs404 ==
    (spc # "idle" /\ urlOk /\ \A k \in 1..Len(routes) : ~Matches(routes[k].pattern, reqPath))
        => /\ spc = "done"
           /\ response = notFound
           /\ invoked = <<>>
           /\ ~bodyParsed

C6_Witness ==
    /\ spc = "done"
    /\ response.statusCode = 404
    /\ reqMethod = "post"
    /\ reqPath = <<"posts", "42">>
    /\ Len(routes) = 2
    /\ \E k \in 1..Len(routes) : HasMethod(k, "post")

\* the first registered pattern that matches the path has no chain for the method
FirstMatchLacksMethod(k) ==
    /\ k \in 1..Len(routes)
    /\ Matches(routes[k].pattern, reqPath)
    /\ \A j \in 1..(k - 1) : ~Matches(routes[j].pattern, reqPath)
    /\ \A j \in 1..Len(routes[k].methods) : routes[k].methods[j] # reqMethod

\* C7: when the first matching pattern has no chain for the method the answer is 405
\* with an Allow header listing exactly the methods of that pattern, and no handler
\* chain is invoked, even when a later pattern matches and has the method.
C7_MethodNotAllowed ==
    \A k \in 1..Len(routes) :
        (spc # "idle" /\ urlOk /\ FirstMatchLacksMethod(k))
            => /\ spc = "done"
               /\ response.statusCode = 405
               /\ response.hasAllow
               /\ response.allow = routes[k].methods
               /\ invoked = <<>>

C7_Witness ==
    /\ spc = "done"
    /\ response.statusCode = 405
    /\ reqPath = <<"users", "me">>
    /\ reqMethod = "post"
    /\ routes = <<Route(<<"users", ":id">>, <<"get">>), Route(<<"users", "me">>, <<"post">>)>>
    /\ response.allow = <<"get">>


\* a handler chain is registered for the method under the k-th pattern
Registered(k) == k \in 1..Len(routes) /\ HasMethod(k, reqMethod)

SameSegmentCount(k) == Len(routes[k].pattern) = Len(reqPath)

LiteralsEqual(k) ==
    \A n \in 1..Len(routes[k].pattern) :
        (n <= Len(reqPath) /\ routes[k].pattern[n] \notin DynamicSegments)
            => routes[k].pattern[n] = reqPath[n]

Resolved == spc # "idle" /\ urlOk

\* C12 as stated: a path with the segment count and the literal segments of a
\* registered pattern resolves to that pattern; a path with another segment count,
\* or another literal segment, never matches it.
C12_ResolvesToEveryMatch ==
    Resolved =>
        \A k \in 1..Len(routes) :
            /\ (SameSegmentCount(k) /\ LiteralsEqual(k)) => matched = k
            /\ ~SameSegmentCount(k) => matched # k
            /\ ~LiteralsEqual(k) => matched # k

\* C12 amended: a path with the segment count and the literal segments of a
\* registered pattern resolves to that pattern unless a pattern registered before
\* it has them too; a path with another segment count, or another literal
\* segment, never resolves to it; the chain run is the one of the resolved pattern.
C12_ResolvesBySegments ==
    Resolved =>
        \A k \in 1..Len(routes) :
            /\ (/\ SameSegmentCount(k) /\ LiteralsEqual(k)
                /\ \A j \in 1..(k - 1) : ~(SameSegmentCount(j) /\ LiteralsEqual(j)))
                  => /\ matched = k
                     /\ \A n \in 1..Len(invoked) : invoked[n].pattern = routes[k].pattern
                     /\ (spc = "done" /\ Registered(k) /\ ~ParseBodyThrows) => Len(invoked) = 1
            /\ ~SameSegmentCount(k) => matched # k
            /\ ~LiteralsEqual(k) => matched # k

C12_Witness ==
    /\ spc = "done"
    /\ routes = <<Route(<<"users", "me">>, <<"get">>), Route(<<"posts">>, <<"get">>)>>
    /\ reqPath = <<"posts">>
    /\ reqMethod = "get"
    /\ matched = 2
    /\ Len(invoked) = 1
    /\ invoked[1].pattern = <<"posts">>

\* C13: the path-parameters the handler chain receives hold one entry for every
\* dynamic segment of the matched pattern and no other entry, and each value is the
\* path component at the position of its segment.
C13_ParamsBound ==
    \A n \in 1..Len(invoked) :
        LET pat == invoked[n].pattern
            dyn == {k \in 1..Len(pat) : pat[k] \in DynamicSegments}
        IN /\ DOMAIN invoked[n].params = {ParamName(pat[k]) : k \in dyn}
           /\ Cardinality(DOMAIN invoked[n].params) = Cardinality(dyn)
           /\ \A k \in dyn : invoked[n].params[ParamName(pat[k])] = reqPath[k]

C13_Witness ==
    /\ Len(invoked) = 1
    /\ invoked[1].pattern = <<"users", ":id">>
    /\ reqPath = <<"users", "42">>
    /\ invoked[1].params = [name \in {"id"} |-> "42"]

\* C14: when several registered patterns match the path, the one registered first
\* is selected, also when a later one has more literal segments.
C14_FirstRegisteredWins ==
    Resolved =>
        \A j, k \in 1..Len(routes) :
            (j < k /\ Matches(routes[j].pattern, reqPath) /\ Matches(routes[k].pattern, reqPath))
                => /\ matched # k
                   /\ matched # 0
                   /\ matched <= j
                   /\ \A n \in 1..Len(invoked) : invoked[n].pattern # routes[k].pattern

C14_Witness ==
    /\ spc = "done"
    /\ routes = <<Route(<<"users", ":id">>, <<"get">>), Route(<<"users", "me">>, <<"get">>)>>
    /\ reqPath = <<"users", "me">>
    /\ reqMethod = "get"
    /\ matched = 1
    /\ Len(invoked) = 1
    /\ invoked[1].params = [name \in {"id"} |-> "me"]

\* ------------------------------------------------------- transport claims

\* C25: when the client disconnects while writeResponse streams a body, the
\* transport cancels the stream: from then on the stream eventually stops being
\* readable and a registered cleanup has run exactly once.
C25_DisconnectCancels ==
    disconnected ~> (sState # "readable" /\ (CleanupAssigned => cleanupCalls = 1))

C27_FailureReleasesProducer ==
    (tpc = "done" /\ tFailed # "none") =>
        /\ cancelled \/ ~readerLocked \/ sState # "readable"
        /\ (tKind = "sse" /\ CleanupAssigned) => cleanupCalls >= 1

\* ----------------------------------------------------- event stream claims
\* C8: the cleanup callback the handler returned is invoked exactly once over the
\* life of the stream: never twice, and once by the time the stream has ended.
C8_CleanupExactlyOnce ==
    (hPhase = "returned" /\ returnsCleanup) =>
        /\ cleanupCalls <= 1
        /\ sState = "closed" => cleanupCalls = 1

WrittenFrames == [k \in 1..Len(written) |-> SseFrame(written[k])]

\* C9: after n writes and then one close(), a consumer that reads to the end has
\* received exactly the n framed blocks, in the order written, each ending with a
\* blank line, and then end-of-stream.
C9_BlocksInOrder ==
    (~cancelled /\ thrown = 0) =>
        /\ Len(delivered) <= Len(written)
        /\ \A k \in 1..Len(delivered) :
              /\ delivered[k] = WrittenFrames[k]
              /\ delivered[k].bytes[Len(delivered[k].bytes)] = Line("", "")
        /\ consumerDone => (closeCalls = 1 /\ delivered = WrittenFrames)

C9_Witness ==
    /\ consumerDone
    /\ ~cancelled
    /\ thrown = 0
    /\ closeCalls = 1
    /\ Len(written) = 3
    /\ delivered = <<SseFrame(PlainMessage(1)), SseFrame(SseMessage(2, "tick", "", 0)),
                     SseFrame(SseMessage(3, "", "7", 3000))>>

\* C10: after the consumer cancelled before any close(), no chunk is enqueued or
\* delivered, and a producer that still calls write() or close() raises no failure.
C10_CancelStopsWrites ==
    (cancelled /\ ~closedBeforeCancel) => (lateChunks = 0 /\ lateThrows = 0)

====
